---- MODULE Spec2Model ----
(***************************************************************************)
(* Model of Playground Saver: the attachment encoder (encode_image_bytes,  *)
(* encode_image), the request builder (build_input), the reply-text        *)
(* extraction, the HTTP handlers of app.py and api/index.py, the one-shot  *)
(* command continue_conversation.py and the interactive chat_loop of       *)
(* chat.py.                                                                *)
(*                                                                         *)
(* A Python str is a sequence of one-character strings, a bytes object a   *)
(* sequence of integers 0..255, a Python object a record whose DOMAIN is   *)
(* the set of attributes it has (hasattr(o, "a") is "a" \in DOMAIN o), and *)
(* None is one of the values None, NoneList, NoneObj below. A str that is  *)
(* only ever compared (a tag such as a content type or a role) is a TLA+   *)
(* string. Every call starts from the idle state and ends in a state that  *)
(* holds its arguments, its result and the upstream calls it made.         *)
(* chat_loop runs one iteration of its loop per step: pc is where it       *)
(* stands, the other variables after it are its locals, the files on disk, *)
(* what the upstream service answered the last message and the lines the   *)
(* iteration printed.                                                      *)
(***************************************************************************)
EXTENDS Integers, Sequences, FiniteSets, TLC

VARIABLES op, args, result, upstream,
          pc, user_input, current_response_id, pending_images, pending_urls,
          disk, answers, console

\* the state of chat_loop: where the loop is, the line it read last, its
\* locals, the file system (disk) it runs on, what the upstream service answered the
\* call of the last line and what the last line printed
chat_vars == <<pc, user_input, current_response_id, pending_images, pending_urls,
               disk, answers, console>>

vars == <<op, args, result, upstream, chat_vars>>

\* Python's None. TLC compares only values of one shape, so None is written in
\* the shape of the values it stands among: where a str may stand (no str is
\* <<"None">>: the elements of a str are single characters), where a list of
\* str may stand, where an object may stand and where a list of objects may
None == <<"None">>
NoneList == <<None>>
NoneObj == [is_none |-> TRUE]
NoneObjs == <<NoneObj>>

----------------------------------------------------------------------------
(* str helpers *)

UpperChars == <<"A","B","C","D","E","F","G","H","I","J","K","L","M",
                "N","O","P","Q","R","S","T","U","V","W","X","Y","Z">>
LowerChars == <<"a","b","c","d","e","f","g","h","i","j","k","l","m",
                "n","o","p","q","r","s","t","u","v","w","x","y","z">>

LowerChar(c) ==
    IF \E i \in 1..26 : UpperChars[i] = c
    THEN LowerChars[CHOOSE i \in 1..26 : UpperChars[i] = c]
    ELSE c

\* str.lower()
lower(s) == [i \in 1..Len(s) |-> LowerChar(s[i])]

\* str.find(c): 0-based index of the first c, -1 when there is none
find(s, c) ==
    IF \E i \in 1..Len(s) : s[i] = c
    THEN (CHOOSE i \in 1..Len(s) : s[i] = c /\ \A j \in 1..(i-1) : s[j] # c) - 1
    ELSE -1

\* str.rfind(c): 0-based index of the last c, -1 when there is none
rfind(s, c) ==
    IF \E i \in 1..Len(s) : s[i] = c
    THEN (CHOOSE i \in 1..Len(s) : s[i] = c /\ \A j \in (i+1)..Len(s) : s[j] # c) - 1
    ELSE -1

\* s[i:] and s[:i] for a 0-based index 0 <= i <= len(s)
from(s, i) == SubSeq(s, i + 1, Len(s))
upto(s, i) == SubSeq(s, 1, i)

\* str.startswith(prefix)
startswith(s, prefix) ==
    Len(s) >= Len(prefix) /\ SubSeq(s, 1, Len(prefix)) = prefix

Whitespace == {" ", "\t", "\n", "\r"}

\* str.strip()
strip(s) ==
    IF \A i \in 1..Len(s) : s[i] \in Whitespace
    THEN <<>>
    ELSE LET a == CHOOSE i \in 1..Len(s) :
                     s[i] \notin Whitespace /\ \A j \in 1..(i-1) : s[j] \in Whitespace
             b == CHOOSE i \in 1..Len(s) :
                     s[i] \notin Whitespace /\ \A j \in (i+1)..Len(s) : s[j] \in Whitespace
         IN  SubSeq(s, a, b)

----------------------------------------------------------------------------
(* MIME type detection *)

image_png  == <<"i","m","a","g","e","/","p","n","g">>
image_jpeg == <<"i","m","a","g","e","/","j","p","e","g">>
image_gif  == <<"i","m","a","g","e","/","g","i","f">>
image_webp == <<"i","m","a","g","e","/","w","e","b","p">>
image_bmp  == <<"i","m","a","g","e","/","b","m","p">>
application_pdf   == <<"a","p","p","l","i","c","a","t","i","o","n","/","p","d","f">>
application_x_tar == <<"a","p","p","l","i","c","a","t","i","o","n","/","x","-","t","a","r">>
text_plain == <<"t","e","x","t","/","p","l","a","i","n">>

dot_png  == <<".","p","n","g">>
dot_jpg  == <<".","j","p","g">>
dot_jpeg == <<".","j","p","e","g">>
dot_gif  == <<".","g","i","f">>
dot_webp == <<".","w","e","b","p">>
dot_bmp  == <<".","b","m","p">>
dot_pdf  == <<".","p","d","f">>
dot_tar  == <<".","t","a","r">>
dot_gz   == <<".","g","z">>
dot_tgz  == <<".","t","g","z">>
dot_tar_gz == <<".","t","a","r",".","g","z">>

\* posixpath.splitext: <<root, ext>>; the extension starts at the last dot of
\* the last path component, unless only dots precede it there
splitext(p) ==
    LET sepIndex == rfind(p, "/")
        dotIndex == rfind(p, ".")
    IN  IF dotIndex > sepIndex
           /\ \E k \in (sepIndex + 1)..(dotIndex - 1) : p[k + 1] # "."
        THEN <<upto(p, dotIndex), from(p, dotIndex)>>
        ELSE <<p, <<>>>>

\* mimetypes: the entries of the standard tables that the file names below reach
suffix_map(ext) == IF ext = dot_tgz THEN dot_tar_gz ELSE None

encodings_map(ext) == IF ext = dot_gz THEN <<"g","z","i","p">> ELSE None

types_map(ext) ==
    CASE ext = dot_png  -> image_png
      [] ext = dot_jpg  -> image_jpeg
      [] ext = dot_jpeg -> image_jpeg
      [] ext = dot_gif  -> image_gif
      [] ext = dot_webp -> image_webp
      [] ext = dot_bmp  -> image_bmp
      [] ext = dot_pdf  -> application_pdf
      [] ext = dot_tar  -> application_x_tar
      [] OTHER -> None

\* MimeTypes.guess_file_type: the type of a path, None when the tables have none
guess_file_type(path) ==
    LET s1 == splitext(path)
        s2 == IF suffix_map(lower(s1[2])) # None
              THEN splitext(s1[1] \o suffix_map(lower(s1[2])))
              ELSE s1
        s3 == IF encodings_map(s2[2]) # None THEN splitext(s2[1]) ELSE s2
    IN  types_map(lower(s3[2]))

\* the scheme of a name as mimetypes sees it ("" when it has none)
url_scheme(url) ==
    LET colon == find(url, ":")
    IN  IF colon > 0 /\ \A k \in 1..colon : url[k] # "/"
        THEN lower(upto(url, colon))
        ELSE <<>>

\* mimetypes.guess_type(filename)[0], called as in encode_image_bytes
guess_type(filename) ==
    LET scheme == url_scheme(filename)
        url    == IF scheme = <<>> THEN filename
                  ELSE from(filename, find(filename, ":") + 1)
    IN  IF scheme = <<"d","a","t","a">>
        THEN LET comma == find(url, ",")
                 semi  == find(upto(url, IF comma < 0 THEN 0 ELSE comma), ";")
                 type  == upto(url, IF semi >= 0 THEN semi ELSE comma)
             IN  IF comma < 0 THEN None
                 ELSE IF find(type, "=") >= 0 \/ find(type, "/") < 0
                      THEN text_plain ELSE type
        ELSE guess_file_type(url)

\* PurePath.name: the last component of the path
path_name(p) == from(p, rfind(p, "/") + 1)

\* PurePath.suffix: the last dot of the name and what follows it, "" when the
\* name has no dot, starts with its only dot or ends with it
path_suffix(p) ==
    LET name == path_name(p)
        i    == rfind(name, ".")
    IN  IF 0 < i /\ i < Len(name) - 1 THEN from(name, i) ELSE <<>>

\* mime_map.get(ext): no default
mime_map_get_no_default(ext) ==
    CASE ext = dot_png  -> image_png
      [] ext = dot_jpg  -> image_jpeg
      [] ext = dot_jpeg -> image_jpeg
      [] ext = dot_gif  -> image_gif
      [] ext = dot_webp -> image_webp
      [] OTHER -> None

\* mime_map.get(ext, "image/png")
mime_map_get(ext) ==
    CASE ext = dot_png  -> image_png
      [] ext = dot_jpg  -> image_jpeg
      [] ext = dot_jpeg -> image_jpeg
      [] ext = dot_gif  -> image_gif
      [] ext = dot_webp -> image_webp
      [] OTHER -> image_png

\* lines 26-36 of encode_image_bytes: the MIME type of a file name
detect_mime_type(filename) ==
    IF guess_type(filename) = None
    THEN mime_map_get(lower(path_suffix(filename)))
    ELSE guess_type(filename)

----------------------------------------------------------------------------
(* base64 *)

b64_alphabet ==
    <<"A","B","C","D","E","F","G","H","I","J","K","L","M","N","O","P",
      "Q","R","S","T","U","V","W","X","Y","Z","a","b","c","d","e","f",
      "g","h","i","j","k","l","m","n","o","p","q","r","s","t","u","v",
      "w","x","y","z","0","1","2","3","4","5","6","7","8","9","+","/">>

b64_char(n) == b64_alphabet[n + 1]

RECURSIVE b64encode_unpadded(_)
\* an encoder that stops at the last whole group of three bytes
b64encode_unpadded(data) ==
    IF Len(data) < 3 THEN <<>>
    ELSE <<b64_char(data[1] \div 4),
           b64_char((data[1] % 4) * 16 + data[2] \div 16),
           b64_char((data[2] % 16) * 4 + data[3] \div 64),
           b64_char(data[3] % 64)>>
         \o b64encode_unpadded(SubSeq(data, 4, Len(data)))

\* base64.standard_b64encode(data).decode("utf-8"): three bytes give four
\* characters; a last group of one or two bytes is padded with "="
RECURSIVE standard_b64encode(_)
standard_b64encode(data) ==
    IF Len(data) = 0 THEN <<>>
    ELSE IF Len(data) = 1
    THEN <<b64_char(data[1] \div 4), b64_char((data[1] % 4) * 16), "=", "=">>
    ELSE IF Len(data) = 2
    THEN <<b64_char(data[1] \div 4),
           b64_char((data[1] % 4) * 16 + data[2] \div 16),
           b64_char((data[2] % 16) * 4), "=">>
    ELSE <<b64_char(data[1] \div 4),
           b64_char((data[1] % 4) * 16 + data[2] \div 16),
           b64_char((data[2] % 16) * 4 + data[3] \div 64),
           b64_char(data[3] % 64)>>
         \o standard_b64encode(SubSeq(data, 4, Len(data)))

----------------------------------------------------------------------------
(* Attachment encoder *)

\* encode_image_bytes(data, filename) -> (encoded, mime_type)
encode_image_bytes(data, filename) ==
    [data |-> standard_b64encode(data), mime_type |-> detect_mime_type(filename)]

\* Path.exists() and open(path, "rb").read() against the file system fs, a
\* function from the paths that exist to [kind |-> "file", data |-> bytes] or
\* [kind |-> "dir"]
path_exists(path, fs) == path \in DOMAIN fs

\* the outcome of open(path, "rb").read() on a path that exists
open_read(path, fs) ==
    IF fs[path].kind = "file"
    THEN [data |-> fs[path].data]
    ELSE [raised |-> "IsADirectoryError"]

\* encode_image without its check: a missing file is encoded as an empty one
encode_image_no_check(image_path, fs) ==
    IF ~path_exists(image_path, fs)
    THEN [data |-> <<>>, mime_type |-> detect_mime_type(image_path)]
    ELSE LET f == open_read(image_path, fs)
         IN  IF "raised" \in DOMAIN f
             THEN f
             ELSE [data |-> standard_b64encode(f.data),
                   mime_type |-> detect_mime_type(image_path)]

\* encode_image(image_path) -> (encoded, mime_type), or the exception raised
encode_image(image_path, fs) ==
    IF ~path_exists(image_path, fs)
    THEN [raised |-> "FileNotFoundError"]
    ELSE LET mime_type == detect_mime_type(image_path)
             f == open_read(image_path, fs)
         IN  IF "raised" \in DOMAIN f
             THEN f
             ELSE [data |-> standard_b64encode(f.data), mime_type |-> mime_type]

----------------------------------------------------------------------------
(* Payload builder, request side *)

\* the two shapes of str | list[dict]
Str(s) == [str |-> s]
List(l) == [list |-> l]

\* the data URL without its ";base64" marker
data_url_no_marker(mime_type, data) ==
    <<"d","a","t","a",":">> \o mime_type \o <<",">> \o data

\* f"data:{mime_type};base64,{data}"
data_url(mime_type, data) ==
    <<"d","a","t","a",":">> \o mime_type \o <<";","b","a","s","e","6","4",",">> \o data

\* {"type": "input_text", "text": message}
input_text(message) == [type |-> "input_text", text |-> message]

\* {"type": "input_image", "image_url": url}
input_image(url) == [type |-> "input_image", image_url |-> url]

\* the text entry appended whether or not the message is empty
text_entries_always(message) == <<input_text(message)>>

\* what `if message:` appends to the empty content list
text_entries(message) == IF message # <<>> THEN <<input_text(message)>> ELSE <<>>

\* the loop `for img in images: content.append(...)` of app.py, api/index.py
uploaded_entries(images) ==
    [i \in 1..Len(images) |-> input_image(data_url(images[i].mime_type, images[i].data))]

\* build_input testing the message, not the images
build_input_by_message(message, images) ==
    IF images = <<>> /\ message # <<>>
    THEN Str(message)
    ELSE List(<<[role |-> "user",
                 content |-> text_entries(message) \o uploaded_entries(images)]>>)

\* build_input(message, images) of app.py and api/index.py
build_input(message, images) ==
    IF images = <<>>
    THEN Str(message)
    ELSE List(<<[role |-> "user",
                 content |-> text_entries(message) \o uploaded_entries(images)]>>)

\* `not x` for a list or None
falsy(x) == x = NoneList \/ x = <<>>

\* one turn of the loop below: e is what encode_image gave for the path, rest
\* what the turns after it give
local_entry(e, rest) ==
    IF "raised" \in DOMAIN e THEN e
    ELSE IF "raised" \in DOMAIN rest THEN rest
    ELSE [entries |-> <<input_image(data_url(e.mime_type, e.data))>> \o rest.entries]

RECURSIVE local_entries(_, _)
\* the loop `for img_path in image_paths` of the CLI build_input: the entries
\* appended, or the exception of the first path that cannot be encoded
local_entries(image_paths, fs) ==
    IF image_paths = <<>> THEN [entries |-> <<>>]
    ELSE local_entry(encode_image(Head(image_paths), fs),
                     local_entries(Tail(image_paths), fs))

\* the loop `for url in image_urls` of the CLI build_input
url_entries(image_urls) == [i \in 1..Len(image_urls) |-> input_image(image_urls[i])]

\* the content list with the URL entries before the local ones
cli_content_urls_first(message, locals, urls) ==
    IF "raised" \in DOMAIN locals THEN locals
    ELSE List(<<[role |-> "user",
                 content |-> text_entries(message) \o urls \o locals.entries]>>)

\* the list build_input returns once both loops have run, or the exception
\* of the first loop
cli_content(message, locals, urls) ==
    IF "raised" \in DOMAIN locals THEN locals
    ELSE List(<<[role |-> "user",
                 content |-> text_entries(message) \o locals.entries \o urls]>>)

\* build_input(message, image_paths, image_urls) of chat.py and
\* continue_conversation.py, or the exception it raises
cli_build_input(message, image_paths, image_urls, fs) ==
    IF falsy(image_paths) /\ falsy(image_urls)
    THEN Str(message)
    ELSE cli_content(message,
                     IF falsy(image_paths) THEN [entries |-> <<>>]
                     ELSE local_entries(image_paths, fs),
                     IF falsy(image_urls) THEN <<>> ELSE url_entries(image_urls))

----------------------------------------------------------------------------
(* Payload builder, reply side *)

RECURSIVE send_content_loop_any_text(_, _)
\* the loop appending every fragment that has a text, whatever its kind
send_content_loop_any_text(content, text) ==
    IF content = <<>> THEN [text |-> text]
    ELSE LET c == Head(content)
         IN  IF "text" \notin DOMAIN c
             THEN send_content_loop_any_text(Tail(content), text)
             ELSE IF c.text = None THEN [raised |-> "TypeError"]
             ELSE send_content_loop_any_text(Tail(content), text \o c.text)

RECURSIVE send_content_loop(_, _)
\* send_message: `for content in item.content:
\*                    if content.type == "output_text":
\*                        assistant_text += content.text`
\* the text accumulated, or the exception a missing attribute raises
send_content_loop(content, text) ==
    IF content = <<>> THEN [text |-> text]
    ELSE LET c == Head(content)
         IN  IF "type" \notin DOMAIN c THEN [raised |-> "AttributeError"]
             ELSE IF c.type # "output_text" THEN send_content_loop(Tail(content), text)
             ELSE IF "text" \notin DOMAIN c THEN [raised |-> "AttributeError"]
             ELSE IF c.text = None THEN [raised |-> "TypeError"]
             ELSE send_content_loop(Tail(content), text \o c.text)

RECURSIVE send_output_loop(_, _)
\* send_message: `for item in response.output: if item.type == "message": ...`
send_output_loop(output, text) ==
    IF output = <<>> THEN [text |-> text]
    ELSE LET item == Head(output)
         IN  IF "type" \notin DOMAIN item THEN [raised |-> "AttributeError"]
             ELSE IF item.type # "message" THEN send_output_loop(Tail(output), text)
             ELSE IF "content" \notin DOMAIN item THEN [raised |-> "AttributeError"]
             ELSE IF item.content = NoneObjs THEN [raised |-> "TypeError"]
             ELSE LET inner == send_content_loop(item.content, text)
                  IN  IF "raised" \in DOMAIN inner THEN inner
                      ELSE send_output_loop(Tail(output), inner.text)

\* send_message, "Extract response text": assistant_text, or the exception
send_extract(response) ==
    IF response = NoneObj THEN [raised |-> "AttributeError"]
    ELSE send_output_loop(response.output, <<>>)

RECURSIVE continue_content_loop(_, _)
\* continue_conversation_api: `for content in item.content:
\*                                 if hasattr(content, 'text'):
\*                                     assistant_text += content.text`
continue_content_loop(content, text) ==
    IF content = <<>> THEN [text |-> text]
    ELSE LET c == Head(content)
         IN  IF "text" \notin DOMAIN c THEN continue_content_loop(Tail(content), text)
             ELSE IF c.text = None THEN [raised |-> "TypeError"]
             ELSE continue_content_loop(Tail(content), text \o c.text)

RECURSIVE continue_output_loop(_, _)
\* continue_conversation_api: `for item in response.output: ...`
continue_output_loop(output, text) ==
    IF output = <<>> THEN [text |-> text]
    ELSE LET item == Head(output)
         IN  IF "type" \notin DOMAIN item THEN [raised |-> "AttributeError"]
             ELSE IF item.type # "message" THEN continue_output_loop(Tail(output), text)
             ELSE IF "content" \notin DOMAIN item THEN [raised |-> "AttributeError"]
             ELSE IF item.content = NoneObjs THEN [raised |-> "TypeError"]
             ELSE LET inner == continue_content_loop(item.content, text)
                  IN  IF "raised" \in DOMAIN inner THEN inner
                      ELSE continue_output_loop(Tail(output), inner.text)

\* continue_conversation_api, "Extract response text"
continue_extract(response) ==
    IF response = NoneObj THEN [raised |-> "AttributeError"]
    ELSE continue_output_loop(response.output, <<>>)

----------------------------------------------------------------------------
(* HTTP handlers of app.py *)

\* request.form.get(key, default): a form is a record of its fields, None
\* standing for a field the request does not carry
form_get(form, key, default) == IF form[key] = None THEN default ELSE form[key]

gpt_4o == <<"g","p","t","-","4","o">>

\* jsonify(body), status
http(status, body) == [status |-> status, json |-> body]

\* the loop over request.files.getlist("images"): the parts with a file name,
\* encoded
RECURSIVE process_images(_)
process_images(files) ==
    IF files = <<>> THEN <<>>
    ELSE IF Head(files).filename # <<>>
         THEN <<encode_image_bytes(Head(files).data, Head(files).filename)>>
                  \o process_images(Tail(files))
         ELSE process_images(Tail(files))

\* the params without the link to the previous response
create_params_no_link(model, input, previous_response_id, reasoning_effort) ==
    [model |-> model, input |-> input]
        @@ (IF reasoning_effort # None
            THEN [reasoning |-> [effort |-> reasoning_effort]] ELSE <<>>)

\* the params of client.responses.create; a key the code does not set is
\* not in the record
create_params(model, input, previous_response_id, reasoning_effort) ==
    [model |-> model, input |-> input]
        @@ (IF previous_response_id # <<>>
            THEN [previous_response_id |-> previous_response_id] ELSE <<>>)
        @@ (IF reasoning_effort # None
            THEN [reasoning |-> [effort |-> reasoning_effort]] ELSE <<>>)

\* `x.strip() or None`
strip_or_none(x) == IF strip(x) = <<>> THEN None ELSE strip(x)

\* POST /api/send of app.py, given the form, the uploaded parts and what the
\* upstream service answers a call: the HTTP response and the upstream calls
send_message(form, files, outcome) ==
    LET api_key     == strip(form_get(form, "api_key", <<>>))
        response_id == strip(form_get(form, "response_id", <<>>))
        message     == strip(form_get(form, "message", <<>>))
        model       == strip(form_get(form, "model", gpt_4o))
        reasoning_effort == strip_or_none(form_get(form, "reasoning_effort", <<>>))
        input_payload == build_input(message, process_images(files))
        params == create_params(model, input_payload, response_id, reasoning_effort)
        call == [api |-> "responses.create", api_key |-> api_key, params |-> params]
    IN  IF api_key = <<>>
        THEN [response |-> http(400, [error |-> "API key is required"]),
              upstream |-> <<>>]
        ELSE IF message = <<>> /\ files = <<>>
        THEN [response |-> http(400, [error |-> "Message or images required"]),
              upstream |-> <<>>]
        ELSE IF "raised" \in DOMAIN outcome
        THEN [response |-> http(500, [error |-> outcome.raised]),
              upstream |-> <<call>>]
        ELSE LET text == send_extract(outcome.reply)
             IN  IF "raised" \in DOMAIN text
                 THEN [response |-> http(500, [error |-> text.raised]),
                       upstream |-> <<call>>]
                 ELSE [response |->
                          http(200, [success |-> TRUE,
                                     response |-> text.text,
                                     new_response_id |-> outcome.reply.id,
                                     model |-> outcome.reply.model]),
                       upstream |-> <<call>>]

\* POST /api/conversations/<conv_id>/continue
continue_conversation_api(conv_id, form, outcome) ==
    LET api_key == strip(form_get(form, "api_key", <<>>))
        message == strip(form_get(form, "message", <<>>))
        model   == strip(form_get(form, "model", gpt_4o))
        reasoning_effort == strip_or_none(form_get(form, "reasoning_effort", <<>>))
        params == [model |-> model, conversation_id |-> conv_id, input |-> Str(message)]
                      @@ (IF reasoning_effort # None
                          THEN [reasoning |-> [effort |-> reasoning_effort]] ELSE <<>>)
        call == [api |-> "responses.create", api_key |-> api_key, params |-> params]
    IN  IF api_key = <<>>
        THEN [response |-> http(400, [error |-> "API key is required"]),
              upstream |-> <<>>]
        ELSE IF message = <<>>
        THEN [response |-> http(400, [error |-> "Message is required"]),
              upstream |-> <<>>]
        ELSE IF "raised" \in DOMAIN outcome
        THEN [response |-> http(500, [error |-> outcome.raised]),
              upstream |-> <<call>>]
        ELSE LET text == continue_extract(outcome.reply)
             IN  IF "raised" \in DOMAIN text
                 THEN [response |-> http(500, [error |-> text.raised]),
                       upstream |-> <<call>>]
                 ELSE [response |->
                          http(200, [success |-> TRUE,
                                     response |-> text.text,
                                     response_id |-> outcome.reply.id,
                                     conversation_id |-> conv_id,
                                     model |-> outcome.reply.model]),
                       upstream |-> <<call>>]

----------------------------------------------------------------------------
(* HTTP handlers of api/index.py, and the one-shot command *)

\* the key OpenAI() takes from the environment (OPENAI_API_KEY)
env_api_key == <<"e","n","v">>

\* the params of api/index.py with the conversation link as well
index_params_both(model, response_id, input, reasoning_effort) ==
    [model |-> model, previous_response_id |-> response_id,
     conversation_id |-> response_id, input |-> input]
        @@ (IF reasoning_effort # None
            THEN [reasoning |-> [effort |-> reasoning_effort]] ELSE <<>>)

\* the params of api/index.py send_message, continue_conversation and
\* chat_loop: previous_response_id is always set
index_params(model, response_id, input, reasoning_effort) ==
    [model |-> model, previous_response_id |-> response_id, input |-> input]
        @@ (IF reasoning_effort # None
            THEN [reasoning |-> [effort |-> reasoning_effort]] ELSE <<>>)

\* POST /api/send of api/index.py: no API key is read, a response id is
\* required
index_send_message(form, files, outcome) ==
    LET response_id == strip(form_get(form, "response_id", <<>>))
        message     == strip(form_get(form, "message", <<>>))
        model       == strip(form_get(form, "model", gpt_4o))
        reasoning_effort == strip_or_none(form_get(form, "reasoning_effort", <<>>))
        input_payload == build_input(message, process_images(files))
        params == index_params(model, response_id, input_payload, reasoning_effort)
        call == [api |-> "responses.create", api_key |-> env_api_key, params |-> params]
    IN  IF response_id = <<>>
        THEN [response |-> http(400, [error |-> "Response ID is required"]),
              upstream |-> <<>>]
        ELSE IF message = <<>> /\ files = <<>>
        THEN [response |-> http(400, [error |-> "Message or images required"]),
              upstream |-> <<>>]
        ELSE IF "raised" \in DOMAIN outcome
        THEN [response |-> http(500, [error |-> outcome.raised]),
              upstream |-> <<call>>]
        ELSE LET text == send_extract(outcome.reply)
             IN  IF "raised" \in DOMAIN text
                 THEN [response |-> http(500, [error |-> text.raised]),
                       upstream |-> <<call>>]
                 ELSE [response |->
                          http(200, [success |-> TRUE,
                                     response |-> text.text,
                                     new_response_id |-> outcome.reply.id,
                                     model |-> outcome.reply.model]),
                       upstream |-> <<call>>]

\* str(None), as an f-string formats a text that is None
str_None == <<"N","o","n","e">>

\* a line printed on the console: what it starts with and the text after it
console_line(line, text) == [line |-> line, text |-> text]

\* the line printed for an exception, and the one that follows it
error_line(e) == [line |-> "Error", error |-> e]
state_preserved_line == [line |-> "(Conversation state preserved, try again)"]

RECURSIVE print_content_loop(_, _)
\* chat_loop, continue_conversation:
\*     `for content in item.content:
\*          if content.type == "output_text": print(f"Assistant: {content.text}")`
\* the lines printed, and the exception a missing attribute raises
print_content_loop(content, printed) ==
    IF content = <<>> THEN [printed |-> printed]
    ELSE LET c == Head(content)
         IN  IF "type" \notin DOMAIN c
             THEN [printed |-> printed, raised |-> "AttributeError"]
             ELSE IF c.type # "output_text"
             THEN print_content_loop(Tail(content), printed)
             ELSE IF "text" \notin DOMAIN c
             THEN [printed |-> printed, raised |-> "AttributeError"]
             ELSE print_content_loop(Tail(content),
                      Append(printed,
                             console_line("Assistant",
                                          IF c.text = None THEN str_None ELSE c.text)))

RECURSIVE print_output_loop(_, _)
\* chat_loop, continue_conversation: `for item in response.output: ...`
print_output_loop(output, printed) ==
    IF output = <<>> THEN [printed |-> printed]
    ELSE LET item == Head(output)
         IN  IF "type" \notin DOMAIN item
             THEN [printed |-> printed, raised |-> "AttributeError"]
             ELSE IF item.type # "message" THEN print_output_loop(Tail(output), printed)
             ELSE IF "content" \notin DOMAIN item
             THEN [printed |-> printed, raised |-> "AttributeError"]
             ELSE IF item.content = NoneObjs
             THEN [printed |-> printed, raised |-> "TypeError"]
             ELSE LET inner == print_content_loop(item.content, printed)
                  IN  IF "raised" \in DOMAIN inner THEN inner
                      ELSE print_output_loop(Tail(output), inner.printed)

\* continue_conversation after `input_payload = build_input(...)`: the
\* parameters, the four lines printed, the upstream call and the reply printed
continue_conversation_request(input_payload, previous_response_id, user_message, model, reasoning_effort, outcome) ==
    LET params == index_params(model, previous_response_id, input_payload,
                               IF reasoning_effort = <<>> THEN None ELSE reasoning_effort)
        call == [api |-> "responses.create", api_key |-> env_api_key, params |-> params]
        head == <<console_line("Continuing from", previous_response_id),
                  console_line("User", user_message)>>
    IN  IF "raised" \in DOMAIN input_payload
        THEN [result |-> input_payload, upstream |-> <<>>, console |-> <<>>]
        ELSE IF "raised" \in DOMAIN outcome
        THEN [result |-> outcome, upstream |-> <<call>>, console |-> head]
        ELSE IF outcome.reply = NoneObj
        THEN [result |-> [raised |-> "AttributeError"], upstream |-> <<call>>,
              console |-> head]
        ELSE LET reply == outcome.reply
                 lines == Append(head, console_line("Response ID", reply.id))
                 shown == print_output_loop(reply.output, lines)
             IN  IF "raised" \in DOMAIN shown
                 THEN [result |-> [raised |-> shown.raised], upstream |-> <<call>>,
                       console |-> shown.printed]
                 ELSE [result |-> NoneObj, upstream |-> <<call>>,
                       console |-> Append(shown.printed,
                                          console_line("New response ID", reply.id))]

\* continue_conversation(previous_response_id, user_message, ...) of
\* continue_conversation.py against the file system fs, the upstream service
\* answering with outcome: what it returns (None) or raises, the upstream
\* calls and the console
continue_conversation(previous_response_id, user_message, model, reasoning_effort, image_paths, image_urls, fs, outcome) ==
    continue_conversation_request(
        cli_build_input(user_message, image_paths, image_urls, fs),
        previous_response_id, user_message, model, reasoning_effort, outcome)

----------------------------------------------------------------------------
(* GET /api/models of app.py and api/index.py *)

\* the characters of the model ids in code point order
code_points ==
    <<"-", ".", "0","1","2","3","4","5","6","7","8","9",
      "A","B","C","D","E","F","G","H","I","J","K","L","M",
      "N","O","P","Q","R","S","T","U","V","W","X","Y","Z",
      "a","b","c","d","e","f","g","h","i","j","k","l","m",
      "n","o","p","q","r","s","t","u","v","w","x","y","z">>

\* ord(c), up to the order of the characters
ord(c) == CHOOSE i \in 1..Len(code_points) : code_points[i] = c

\* a < b for two str: the first character that differs decides, a proper
\* prefix is smaller
str_less(a, b) ==
    \E k \in 1..Len(b) :
        /\ k <= Len(a) + 1
        /\ \A j \in 1..(k - 1) : a[j] = b[j]
        /\ k = Len(a) + 1 \/ ord(a[k]) < ord(b[k])

\* `sub in s` for two str
contains(s, sub) ==
    \E i \in 0..(Len(s) - Len(sub)) : SubSeq(s, i + 1, i + Len(sub)) = sub

\* ['gpt-4', 'gpt-5', 'o1', 'o3', 'chatgpt']
include_prefixes ==
    << <<"g","p","t","-","4">>,
       <<"g","p","t","-","5">>,
       <<"o","1">>,
       <<"o","3">>,
       <<"c","h","a","t","g","p","t">> >>

\* ['realtime', 'audio', 'transcribe', 'search']
skip_words ==
    << <<"r","e","a","l","t","i","m","e">>,
       <<"a","u","d","i","o">>,
       <<"t","r","a","n","s","c","r","i","b","e">>,
       <<"s","e","a","r","c","h">> >>

\* the filter comparing the id as it is written with the prefixes
model_wanted_case_sensitive(model_id) ==
    /\ \E i \in 1..Len(include_prefixes) : contains(model_id, include_prefixes[i])
    /\ ~\E i \in 1..Len(skip_words) : contains(model_id, skip_words[i])

\* `if any(prefix in model_id.lower() ...): if not any(skip in model_id ...)`
model_wanted(model_id) ==
    /\ \E i \in 1..Len(include_prefixes) : contains(lower(model_id), include_prefixes[i])
    /\ ~\E i \in 1..Len(skip_words) : contains(model_id, skip_words[i])

\* the loop `for model in models.data`: the ids kept, in the order received
RECURSIVE filter_models(_)
filter_models(data) ==
    IF data = <<>> THEN <<>>
    ELSE IF model_wanted(Head(data).id)
         THEN <<Head(data).id>> \o filter_models(Tail(data))
         ELSE filter_models(Tail(data))

priority_order ==
    << <<"g","p","t","-","4","o","-","m","i","n","i">>,
       <<"g","p","t","-","4","o">>,
       <<"g","p","t","-","4",".","1">>,
       <<"g","p","t","-","4",".","1","-","m","i","n","i">>,
       <<"o","1","-","m","i","n","i">>,
       <<"o","1">>,
       <<"o","3","-","m","i","n","i">>,
       <<"o","3">>,
       <<"g","p","t","-","5">>,
       <<"c","h","a","t","g","p","t","-","4","o">> >>

\* sort_key(model_id): (i, model_id) for the first prefix of priority_order
\* the id starts with, (100, model_id) when there is none
sort_key(model_id) ==
    IF \E i \in 1..Len(priority_order) : startswith(model_id, priority_order[i])
    THEN <<(CHOOSE i \in 1..Len(priority_order) :
                /\ startswith(model_id, priority_order[i])
                /\ \A j \in 1..(i - 1) : ~startswith(model_id, priority_order[j])) - 1,
           model_id>>
    ELSE <<100, model_id>>

\* k1 < k2 for two keys (rank, id)
key_less(k1, k2) == k1[1] < k2[1] \/ (k1[1] = k2[1] /\ str_less(k1[2], k2[2]))

\* x put into a sorted list, after the elements that do not come after it
RECURSIVE insert_sorted(_, _)
insert_sorted(x, sorted) ==
    IF sorted = <<>> THEN <<x>>
    ELSE IF key_less(sort_key(x), sort_key(Head(sorted)))
         THEN <<x>> \o sorted
         ELSE <<Head(sorted)>> \o insert_sorted(x, Tail(sorted))

\* model_ids.sort(key=sort_key)
RECURSIVE sort_models(_)
sort_models(model_ids) ==
    IF model_ids = <<>> THEN <<>>
    ELSE insert_sorted(model_ids[Len(model_ids)],
                       sort_models(SubSeq(model_ids, 1, Len(model_ids) - 1)))

\* the body of get_models once it has a client, the upstream service
\* answering models.list() with listing
list_models(api_key, listing) ==
    LET call == [api |-> "models.list", api_key |-> api_key, params |-> <<>>]
    IN  IF "raised" \in DOMAIN listing
        THEN [response |-> http(500, [error |-> listing.raised, models |-> <<>>]),
              upstream |-> <<call>>]
        ELSE [response |-> http(200, [models |-> sort_models(filter_models(listing.data))]),
              upstream |-> <<call>>]

\* GET /api/models of app.py
get_models(query, listing) ==
    LET api_key == strip(form_get(query, "api_key", <<>>))
    IN  IF api_key = <<>>
        THEN [response |-> http(400, [error |-> "API key is required", models |-> <<>>]),
              upstream |-> <<>>]
        ELSE list_models(api_key, listing)

\* GET /api/models of api/index.py: the key of the environment, no check
index_get_models(query, listing) == list_models(env_api_key, listing)

----------------------------------------------------------------------------
(* History and conversation endpoints of app.py *)

unknown == <<"u","n","k","n","o","w","n">>

\* None where a creation time may stand (a time is not negative)
NoneTime == -1

\* one upstream call: the operation, the key of the client and the arguments
upstream_call(api, api_key, params) == [api |-> api, api_key |-> api_key, params |-> params]

\* `if hasattr(item, 'content') and item.content: for c in item.content:
\*      if hasattr(c, 'text'): content += c.text`
\* (the elif branch of get_response_history appends "" and changes nothing)
item_text(item) ==
    IF "content" \in DOMAIN item /\ item.content # NoneObjs /\ item.content # <<>>
    THEN continue_content_loop(item.content, <<>>)
    ELSE [text |-> <<>>]

\* `item.role if hasattr(item, 'role') else default`
item_role(item, default) == IF "role" \in DOMAIN item THEN item.role ELSE default

\* reversed(items)
reversed(items) == [i \in 1..Len(items) |-> items[Len(items) + 1 - i]]

RECURSIVE history_messages(_, _)
\* get_response_history: the loop over reversed(input_items.data), given the
\* items in the order it visits them: the messages, or the exception
history_messages(items, messages) ==
    IF items = <<>> THEN [messages |-> messages]
    ELSE LET item == Head(items)
         IN  IF "type" \notin DOMAIN item THEN [raised |-> "AttributeError"]
             ELSE IF item.type # "message" THEN history_messages(Tail(items), messages)
             ELSE LET text == item_text(item)
                  IN  IF "raised" \in DOMAIN text THEN text
                      ELSE history_messages(Tail(items),
                               Append(messages, [role |-> item_role(item, "unknown"),
                                                 content |-> text.text]))

\* `if hasattr(response, 'output') and response.output: for item in ...`:
\* the text of the output of a retrieved response, or the exception
response_output_text(response) ==
    IF "output" \in DOMAIN response /\ response.output # NoneObjs
           /\ response.output # <<>>
    THEN continue_output_loop(response.output, <<>>)
    ELSE [text |-> <<>>]

\* GET /api/history/<response_id>: retrieved and listed are what the upstream
\* service answers responses.retrieve and responses.input_items.list
get_response_history(response_id, query, retrieved, listed) ==
    LET api_key == strip(form_get(query, "api_key", <<>>))
        retrieve == upstream_call("responses.retrieve", api_key,
                                  [response_id |-> response_id])
        list == upstream_call("responses.input_items.list", api_key,
                              [response_id |-> response_id])
        failed(e, calls) == [response |-> http(500, [error |-> e]), upstream |-> calls]
    IN  IF api_key = <<>>
        THEN [response |-> http(400, [error |-> "API key is required"]),
              upstream |-> <<>>]
        ELSE IF response_id = <<>>
        THEN [response |-> http(400, [error |-> "Response ID is required"]),
              upstream |-> <<>>]
        ELSE IF "raised" \in DOMAIN retrieved THEN failed(retrieved.raised, <<retrieve>>)
        ELSE IF "raised" \in DOMAIN listed THEN failed(listed.raised, <<retrieve, list>>)
        ELSE LET response == retrieved.reply
                 messages == history_messages(reversed(listed.data), <<>>)
                 output_text == response_output_text(response)
             IN  IF "raised" \in DOMAIN messages
                 THEN failed(messages.raised, <<retrieve, list>>)
                 ELSE IF "raised" \in DOMAIN output_text
                 THEN failed(output_text.raised, <<retrieve, list>>)
                 ELSE [response |->
                          http(200, [response_id |-> response_id,
                                     model |-> IF "model" \in DOMAIN response
                                               THEN response.model ELSE unknown,
                                     messages |-> messages.messages,
                                     output |-> output_text.text,
                                     created_at |-> IF "created_at" \in DOMAIN response
                                                    THEN response.created_at
                                                    ELSE NoneTime]),
                       upstream |-> <<retrieve, list>>]

RECURSIVE items_messages(_, _)
\* get_conversation_items: the loop over reversed(items.data)
items_messages(items, messages) ==
    IF items = <<>> THEN [messages |-> messages]
    ELSE LET item == Head(items)
         IN  IF "type" \notin DOMAIN item THEN [raised |-> "AttributeError"]
             ELSE IF item.type # "message" THEN items_messages(Tail(items), messages)
             ELSE LET text == item_text(item)
                  IN  IF "raised" \in DOMAIN text THEN text
                      ELSE items_messages(Tail(items),
                               Append(messages,
                                      [id |-> IF "id" \in DOMAIN item THEN item.id ELSE None,
                                       role |-> item_role(item, "unknown"),
                                       content |-> text.text]))

\* GET /api/conversations/<conv_id>/items
get_conversation_items(conv_id, query, listed) ==
    LET api_key == strip(form_get(query, "api_key", <<>>))
        list == upstream_call("conversations.items.list", api_key,
                              [conversation_id |-> conv_id])
    IN  IF api_key = <<>>
        THEN [response |-> http(400, [error |-> "API key is required"]),
              upstream |-> <<>>]
        ELSE IF "raised" \in DOMAIN listed
        THEN [response |-> http(500, [error |-> listed.raised]), upstream |-> <<list>>]
        ELSE LET messages == items_messages(reversed(listed.data), <<>>)
             IN  IF "raised" \in DOMAIN messages
                 THEN [response |-> http(500, [error |-> messages.raised]),
                       upstream |-> <<list>>]
                 ELSE [response |-> http(200, [conversation_id |-> conv_id,
                                               messages |-> messages.messages]),
                       upstream |-> <<list>>]

\* client.conversations.items.create(conversation_id=..., items=[message])
append_call(api_key, conv_id, role, content_type, text) ==
    upstream_call("conversations.items.create", api_key,
                  [conversation_id |-> conv_id,
                   items |-> <<[type |-> "message", role |-> role,
                                content |-> <<[type |-> content_type, text |-> text]>>]>>])

RECURSIVE migrate_items(_, _, _, _, _)
\* create_conversation: the loop `for item in input_items.data`, the fail_at-th
\* items.create call raising (none when fail_at is 0): the items.create
\* calls made, calls so far included, and the exception if one is raised
migrate_items(data, api_key, conv_id, calls, fail_at) ==
    IF data = <<>> THEN [calls |-> calls]
    ELSE LET item == Head(data)
             role == item_role(item, "user")
             text == item_text(item)
             call == append_call(api_key, conv_id, role,
                                 IF role = "assistant" THEN "output_text" ELSE "input_text",
                                 text.text)
         IN  IF "type" \notin DOMAIN item
             THEN [calls |-> calls, raised |-> "AttributeError"]
             ELSE IF item.type # "message"
             THEN migrate_items(Tail(data), api_key, conv_id, calls, fail_at)
             ELSE IF "raised" \in DOMAIN text
             THEN [calls |-> calls, raised |-> text.raised]
             ELSE IF text.text = <<>>
             THEN migrate_items(Tail(data), api_key, conv_id, calls, fail_at)
             ELSE IF Len(calls) + 1 = fail_at
             THEN [calls |-> Append(calls, call), raised |-> "APIError"]
             ELSE migrate_items(Tail(data), api_key, conv_id, Append(calls, call), fail_at)

\* create_conversation, "Add the assistant's output from the response"
migrate_output(response, api_key, conv_id, calls, fail_at) ==
    LET output_text == response_output_text(response)
        call == append_call(api_key, conv_id, "assistant", "output_text", output_text.text)
    IN  IF "raised" \in DOMAIN output_text
        THEN [calls |-> calls, raised |-> output_text.raised]
        ELSE IF output_text.text = <<>> THEN [calls |-> calls]
        ELSE IF Len(calls) + 1 = fail_at
        THEN [calls |-> Append(calls, call), raised |-> "APIError"]
        ELSE [calls |-> Append(calls, call)]

\* POST /api/conversations: world is what the upstream service answers
\* conversations.create, responses.retrieve and input_items.list, and which
\* items.create call fails
create_conversation(form, world) ==
    LET api_key == strip(form_get(form, "api_key", <<>>))
        name == strip(form_get(form, "name", <<>>))
        from_response_id == strip(form_get(form, "from_response_id", <<>>))
        create == upstream_call("conversations.create", api_key, <<>>)
        retrieve == upstream_call("responses.retrieve", api_key,
                                  [response_id |-> from_response_id])
        list == upstream_call("responses.input_items.list", api_key,
                              [response_id |-> from_response_id])
        failed(e, calls) == [response |-> http(500, [error |-> e]), upstream |-> calls]
        done(conv_id, calls, items_added) ==
            [response |-> http(200, [success |-> TRUE,
                                     conversation_id |-> conv_id,
                                     items_added |-> items_added,
                                     name |-> name,
                                     from_response_id |-> IF from_response_id = <<>>
                                                          THEN None ELSE from_response_id]),
             upstream |-> calls]
    IN  IF api_key = <<>>
        THEN [response |-> http(400, [error |-> "API key is required"]),
              upstream |-> <<>>]
        ELSE IF "raised" \in DOMAIN world.created
        THEN failed(world.created.raised, <<create>>)
        ELSE IF from_response_id = <<>>
        THEN done(world.created.id, <<create>>, 0)
        ELSE IF "raised" \in DOMAIN world.retrieved
        THEN failed(world.retrieved.raised, <<create, retrieve>>)
        ELSE IF "raised" \in DOMAIN world.listed
        THEN failed(world.listed.raised, <<create, retrieve, list>>)
        ELSE LET conv_id == world.created.id
                 items == migrate_items(world.listed.data, api_key, conv_id, <<>>,
                                        world.fail_at)
                 all == IF "raised" \in DOMAIN items THEN items
                        ELSE migrate_output(world.retrieved.reply, api_key, conv_id,
                                            items.calls, world.fail_at)
             IN  IF "raised" \in DOMAIN all
                 THEN failed(all.raised, <<create, retrieve, list>> \o all.calls)
                 ELSE done(conv_id, <<create, retrieve, list>> \o all.calls,
                           Len(all.calls))

\* a path api/index.py declares no route for: Flask answers 404 Not Found
index_not_found(path) == [response |-> http(404, [html |-> "Not Found"]), upstream |-> <<>>]

----------------------------------------------------------------------------
(* Inputs *)

MaxBytes == 3
MaxImages == 2

ByteValues == {0, 77, 255}

RECURSIVE SeqsUpTo(_, _)
\* the sequences over S of length at most n
SeqsUpTo(S, n) ==
    IF n = 0 THEN {<<>>}
    ELSE LET shorter == SeqsUpTo(S, n - 1)
         IN  shorter \cup {Append(q, x) : q \in {r \in shorter : Len(r) = n - 1}, x \in S}

ByteBuffers == SeqsUpTo(ByteValues, MaxBytes)

\* the stems of the file names: a plain one, none (".png"), one in a
\* directory, and three that start like a data: URL
FileStems ==
    { <<"a">>, <<>>, <<"d",".","p","n","g","/","b">>, <<"d","a","t","a",":","a">>,
      <<"d","a","t","a",":","t","e","x","t","/","h","t","m","l",",","x">>,
      <<"d","a","t","a",":","/",",","x">> }

InnerExts == { <<>>, dot_jpg, dot_tar }

OuterExts == { dot_png, dot_jpg, dot_jpeg, dot_gif, dot_webp,
               <<".","P","N","G">>, <<".","J","p","e","g">>,
               dot_bmp, dot_pdf, dot_gz, dot_tgz, <<".","f","o","o">>, <<".">> }

\* file names: a stem alone, or a stem with one or two extensions
Filenames ==
    (FileStems \cup { s \o i \o o : s \in FileStems, i \in InnerExts, o \in OuterExts })
        \ {<<>>}

\* what may be at a path: a file with its bytes, or a directory
FsEntries(contents) == {[kind |-> "file", data |-> d] : d \in contents} \cup {[kind |-> "dir"]}

\* the file systems in which the paths of P, and only they, may exist
FileSystems(P, contents) == UNION {[S -> FsEntries(contents)] : S \in SUBSET P}

Messages == { <<>>, <<"h","i">>, <<" ">> }

\* uploaded images as send_message hands them to build_input, and the
\* literal attachment of the unit tests
UploadedImages ==
    { encode_image_bytes(<<>>, <<"a",".","p","n","g">>),
      encode_image_bytes(<<77, 255>>, <<"a",".","j","p","g">>),
      encode_image_bytes(<<255>>, <<"a">>),
      [data |-> <<"b","a","s","e">>, mime_type |-> image_gif] }

CliPaths == { <<"a",".","p","n","g">>, <<"b",".","J","P","G">> }

CliContents == { <<>>, <<0, 77>> }

ImageUrls == { <<"h","t","t","p",":","/","/","e","/","i",".","p","n","g">>,
               <<"d","a","t","a",":","x">> }

\* an optional list argument: None, or a list of at most MaxImages elements
OptionalLists(S) == {NoneList} \cup SeqsUpTo(S, MaxImages)

MaxItems == 3
MaxFiles == 2

text_A == [type |-> "output_text", text |-> <<"A">>]
text_B == [type |-> "output_text", text |-> <<"B">>]

\* the content of a message item: text fragments, a refusal (no text
\* attribute), a fragment of another kind that has a text, a fragment with no
\* kind, and text fragments whose text is missing or None
Contents ==
    { <<>>, <<text_A>>, <<text_B>>,
      <<[type |-> "refusal", refusal |-> <<"n","o">>], text_A, text_B>>,
      <<text_B, [type |-> "summary_text", text |-> <<"X">>]>>,
      <<[text |-> <<"Y">>]>>,
      <<[type |-> "output_text"]>>,
      <<[type |-> "output_text", text |-> None]>> }

\* output items: messages, a message with no content attribute, one whose
\* content is None, and an item of another kind
OutputItems ==
    {[type |-> "message", content |-> c] : c \in Contents}
        \cup { [type |-> "message"],
               [type |-> "message", content |-> NoneObjs],
               [type |-> "reasoning"] }

new_id == <<"r","2">>

\* what client.responses.create may return: no reply at all, or a reply
Replies ==
    {NoneObj} \cup {[id |-> new_id, model |-> gpt_4o, output |-> o] :
                       o \in SeqsUpTo(OutputItems, MaxItems)}

\* what an upstream call ends in: an exception, or a reply
Outcomes == {[raised |-> "APIError"]} \cup {[reply |-> r] : r \in Replies}

SampleOutcomes ==
    { [raised |-> "APIError"],
      [reply |-> [id |-> new_id, model |-> gpt_4o, output |-> <<>>]],
      [reply |-> [id |-> new_id, model |-> gpt_4o,
                  output |-> <<[type |-> "reasoning"],
                               [type |-> "message", content |-> <<text_A>>],
                               [type |-> "message", content |-> <<text_B>>]>>]] }

api_keys == {None, <<" ">>, <<"s","k">>}
response_ids == {None, <<" ">>, <<"r","1">>, <<" ","r","1"," ">>}
form_messages == {None, <<" ">>, <<"h","i">>, <<" ","h","i","\n">>}
form_models == {None, <<"o","1">>}
reasoning_efforts == {None, <<"l","o","w">>}

\* the forms POSTed to /api/send
SendForms ==
    [api_key : api_keys, response_id : response_ids, message : form_messages,
     model : form_models, reasoning_effort : reasoning_efforts]

\* the forms POSTed to /api/conversations/<conv_id>/continue
ContinueForms ==
    [api_key : api_keys, message : form_messages,
     model : form_models, reasoning_effort : reasoning_efforts]

\* multipart file parts: one with no file name (an empty file input), a PNG
\* and a file with no extension
UploadParts ==
    { [filename |-> <<>>, data |-> <<>>],
      [filename |-> <<"a",".","p","n","g">>, data |-> <<77>>],
      [filename |-> <<"b">>, data |-> <<>>] }

FileLists == SeqsUpTo(UploadParts, MaxFiles)

\* a plain request, under which every upstream outcome is tried
PlainForm ==
    [api_key |-> <<"s","k">>, response_id |-> None, message |-> <<"h","i">>,
     model |-> None, reasoning_effort |-> None]

conv_ids == { <<"c","1">> }

\* the response id given on the command line: argv is not stripped
cli_response_ids == { <<"r","1">>, <<" ","r","1">> }

\* the optional arguments of the commands: --reasoning-effort, --instructions
cli_options ==
    { [reasoning_effort |-> None, instructions |-> None],
      [reasoning_effort |-> <<"l","o","w">>, instructions |-> <<"b","e">>] }

a_png == <<"a",".","p","n","g">>
http_url == <<"h","t","t","p",":","/","/","e","/","i",".","p","n","g">>

\* the one path the commands are given, a file, a directory or nothing
ChatPaths == { a_png }
ChatContents == { <<77>> }

\* the lines typed at the prompt, as input() returns them
ChatLines ==
    { <<>>, <<" ">>, <<"Q">>, <<"q","u","i","t">>, <<"/","i","d">>,
      <<"/","C","l","e","a","r">>,
      <<"/","i","m","a","g","e"," ">> \o a_png,
      <<"/","I","M","A","G","E"," "," ">> \o a_png \o <<" ">>,
      <<"/","u","r","l"," ">> \o http_url,
      <<"/","i","m","a","g","e"," ">>,
      <<"h","i">> }

\* what the upstream service answers a call of chat_loop: a failure, no reply
\* object, replies with a fresh id, and a reply whose message has no content
ChatOutcomes ==
    { [raised |-> "APIError"],
      [reply |-> NoneObj],
      [reply |-> [id |-> new_id, model |-> gpt_4o,
                  output |-> <<[type |-> "reasoning"],
                               [type |-> "message", content |-> <<text_A, text_B>>]>>]],
      [reply |-> [id |-> <<"r","3">>, model |-> gpt_4o, output |-> <<>>]],
      [reply |-> [id |-> <<"r","3">>, model |-> gpt_4o,
                  output |-> <<[type |-> "message", content |-> <<text_A>>],
                               [type |-> "message"]>>]] }

MaxModels == 2

\* model ids the upstream service lists
ModelIds ==
    { <<"g","p","t","-","4","o">>,
      <<"g","p","t","-","4","o","-","m","i","n","i">>,
      <<"t","e","x","t","-","e","m","b","e","d","d","i","n","g","-","a","d","a","-","0","0","2">>,
      <<"w","h","i","s","p","e","r","-","1">>,
      <<"g","p","t","-","4",".","1","-","m","i","n","i">>,
      <<"g","p","t","-","4",".","1","-","n","a","n","o">>,
      <<"o","1">>,
      <<"G","P","T","-","4","-","R","e","a","l","t","i","m","e">>,
      <<"g","p","t","-","4","o","-","a","u","d","i","o">>,
      <<"g","p","t","-","4","-","t","u","r","b","o">>,
      <<"c","h","a","t","g","p","t","-","4","o">>,
      <<"d","e","m","o","1">> }

\* the listing of the unit test and of the spec, and one of every rank
gpt_4o_mini == <<"g","p","t","-","4","o","-","m","i","n","i">>
example_listing ==
    << <<"g","p","t","-","4","o">>,
       <<"g","p","t","-","4","o","-","m","i","n","i">>,
       <<"t","e","x","t","-","e","m","b","e","d","d","i","n","g","-","a","d","a","-","0","0","2">>,
       <<"w","h","i","s","p","e","r","-","1">> >>
ranked_listing ==
    << <<"g","p","t","-","4","-","t","u","r","b","o">>,
       <<"c","h","a","t","g","p","t","-","4","o">>,
       <<"o","1">>,
       <<"g","p","t","-","4",".","1","-","n","a","n","o">>,
       <<"g","p","t","-","4","o">>,
       <<"g","p","t","-","4","o","-","m","i","n","i">> >>

\* what models.list() answers: a failure, or a page of model objects
Listings ==
    {[raised |-> "APIError"]}
        \cup {[data |-> [i \in 1..Len(ids) |-> [id |-> ids[i]]]] :
                 ids \in SeqsUpTo(ModelIds, MaxModels)
                             \cup {example_listing, ranked_listing}}

\* the query string of a GET request
Queries == [api_key : api_keys]

MaxHistory == 2

user_hi == [type |-> "message", role |-> "user",
            content |-> <<[type |-> "input_text", text |-> <<"h","i">>]>>]
assistant_A == [type |-> "message", role |-> "assistant", content |-> <<text_A>>]

\* the input items of a response, or the items of a conversation: messages
\* of both roles, a message with no content, one with no role, an item of
\* another kind and an item with no kind
HistoryItems ==
    { user_hi, assistant_A,
      [type |-> "message", role |-> "user"],
      [type |-> "message", content |-> <<text_B>>],
      [type |-> "reasoning"],
      [role |-> "user"] }

\* what input_items.list and conversations.items.list answer
ItemListings ==
    {[raised |-> "APIError"]}
        \cup {[data |-> items] : items \in SeqsUpTo(HistoryItems, MaxHistory)}

\* what responses.retrieve answers: a failure, nothing, a response with an
\* output and a creation time, and one whose message has no content
RetrievedResponses ==
    { [raised |-> "APIError"],
      [reply |-> NoneObj],
      [reply |-> [id |-> <<"r","1">>, model |-> gpt_4o, created_at |-> 7,
                  output |-> <<[type |-> "reasoning"],
                               [type |-> "message", content |-> <<text_A, text_B>>]>>]],
      [reply |-> [id |-> <<"r","1">>, model |-> gpt_4o,
                  output |-> <<[type |-> "message"]>>]] }

\* the forms POSTed to /api/conversations
ConversationForms ==
    [api_key : api_keys, name : {None, <<" ","n"," ">>},
     from_response_id : {None, <<" ">>, <<"r","1">>}]

\* what the upstream service answers the calls of create_conversation
Worlds ==
    [created : {[id |-> <<"c","1">>]},
     retrieved : RetrievedResponses,
     listed : ItemListings,
     fail_at : 0..(MaxHistory + 1)]

SampleWorlds ==
    { [created |-> [raised |-> "APIError"], retrieved |-> [raised |-> "APIError"],
       listed |-> [raised |-> "APIError"], fail_at |-> 0],
      [created |-> [id |-> <<"c","1">>], retrieved |-> [reply |-> NoneObj],
       listed |-> [data |-> <<assistant_A, user_hi>>], fail_at |-> 0] }

\* the paths of app.py that api/index.py has no route for
MissingIndexPaths == { "/api/history/r1", "/api/conversations", "/api/conversations/c1/items" }

----------------------------------------------------------------------------
\* chat_loop is not running
NoChat ==
    [pc |-> "none", user_input |-> <<>>, current_response_id |-> <<>>,
     pending_images |-> <<>>, pending_urls |-> <<>>, disk |-> <<>>,
     answers |-> <<>>, console |-> <<>>]

Init ==
    /\ op = "idle"
    /\ args = <<>>
    /\ result = NoneObj
    /\ upstream = <<>>
    /\ pc = NoChat.pc
    /\ user_input = NoChat.user_input
    /\ current_response_id = NoChat.current_response_id
    /\ pending_images = NoChat.pending_images
    /\ pending_urls = NoChat.pending_urls
    /\ disk = NoChat.disk
    /\ answers = NoChat.answers
    /\ console = NoChat.console

\* a call of encode_image_bytes (app.py, api/index.py)
EncodeImageBytes ==
    /\ op = "idle"
    /\ \E data \in ByteBuffers, filename \in Filenames :
        /\ op' = "encode_image_bytes"
        /\ args' = [data |-> data, filename |-> filename]
        /\ result' = encode_image_bytes(data, filename)
        /\ UNCHANGED <<upstream, chat_vars>>

\* a call of encode_image (chat.py, continue_conversation.py) on a path that
\* does not exist, is a directory or is a file
EncodeImage ==
    /\ op = "idle"
    /\ \E image_path \in Filenames :
       \E fs \in FileSystems({image_path}, ByteBuffers) :
        /\ op' = "encode_image"
        /\ args' = [image_path |-> image_path, fs |-> fs]
        /\ result' = encode_image(image_path, fs)
        /\ UNCHANGED <<upstream, chat_vars>>

\* a call of build_input of app.py / api/index.py
BuildInput ==
    /\ op = "idle"
    /\ \E message \in Messages, images \in SeqsUpTo(UploadedImages, MaxImages) :
        /\ op' = "build_input"
        /\ args' = [message |-> message, images |-> images]
        /\ result' = build_input(message, images)
        /\ UNCHANGED <<upstream, chat_vars>>

\* a call of build_input of chat.py / continue_conversation.py
CliBuildInput ==
    /\ op = "idle"
    /\ \E message \in Messages, image_paths \in OptionalLists(CliPaths),
          image_urls \in OptionalLists(ImageUrls),
          fs \in FileSystems(CliPaths, CliContents) :
        /\ op' = "cli_build_input"
        /\ args' = [message |-> message, image_paths |-> image_paths,
                    image_urls |-> image_urls, fs |-> fs]
        /\ result' = cli_build_input(message, image_paths, image_urls, fs)
        /\ UNCHANGED <<upstream, chat_vars>>

\* a request to the handler named o with the inputs a is answered: handled
\* is what the handler returns
Handled(o, a, handled) ==
    /\ op' = o
    /\ args' = a
    /\ result' = handled.response
    /\ upstream' = handled.upstream
    /\ UNCHANGED chat_vars

\* POST /api/send (app.py) with the given form and files, the upstream
\* service answering with the given outcome if it is called
DoSendMessage(form, files, outcome) ==
    Handled("send_message", [form |-> form, files |-> files, outcome |-> outcome],
            send_message(form, files, outcome))

SendMessage ==
    /\ op = "idle"
    /\ \/ \E form \in SendForms, files \in FileLists, outcome \in SampleOutcomes :
              DoSendMessage(form, files, outcome)
       \/ \E outcome \in Outcomes : DoSendMessage(PlainForm, <<>>, outcome)

\* POST /api/conversations/<conv_id>/continue (app.py)
DoContinueConversationApi(conv_id, form, outcome) ==
    Handled("continue_conversation_api",
            [conv_id |-> conv_id, form |-> form, outcome |-> outcome],
            continue_conversation_api(conv_id, form, outcome))

ContinueConversationApi ==
    /\ op = "idle"
    /\ \/ \E conv_id \in conv_ids, form \in ContinueForms, outcome \in SampleOutcomes :
              DoContinueConversationApi(conv_id, form, outcome)
       \/ \E conv_id \in conv_ids, outcome \in Outcomes :
              DoContinueConversationApi(conv_id,
                  [api_key |-> PlainForm.api_key, message |-> PlainForm.message,
                   model |-> None, reasoning_effort |-> None], outcome)

\* GET /api/models (app.py)
GetModels ==
    /\ op = "idle"
    /\ \E query \in Queries, listing \in Listings :
        /\ op' = "get_models"
        /\ args' = [query |-> query, listing |-> listing]
        /\ result' = get_models(query, listing).response
        /\ upstream' = get_models(query, listing).upstream
        /\ UNCHANGED chat_vars

\* GET /api/models (api/index.py)
IndexGetModels ==
    /\ op = "idle"
    /\ \E query \in Queries, listing \in Listings :
        /\ op' = "index_get_models"
        /\ args' = [query |-> query, listing |-> listing]
        /\ result' = index_get_models(query, listing).response
        /\ upstream' = index_get_models(query, listing).upstream
        /\ UNCHANGED chat_vars

\* GET /api/history/<response_id> (app.py)
GetResponseHistory ==
    /\ op = "idle"
    /\ \E response_id \in {<<"r","1">>}, query \in Queries,
          retrieved \in RetrievedResponses, listed \in ItemListings :
        LET run == get_response_history(response_id, query, retrieved, listed)
        IN  /\ op' = "get_response_history"
            /\ args' = [response_id |-> response_id, query |-> query,
                        retrieved |-> retrieved, listed |-> listed]
            /\ result' = run.response
            /\ upstream' = run.upstream
            /\ UNCHANGED chat_vars

\* POST /api/conversations (app.py)
DoCreateConversation(form, world) ==
    /\ op' = "create_conversation"
    /\ args' = [form |-> form, world |-> world]
    /\ result' = create_conversation(form, world).response
    /\ upstream' = create_conversation(form, world).upstream
    /\ UNCHANGED chat_vars

CreateConversation ==
    /\ op = "idle"
    /\ \/ \E form \in ConversationForms, world \in SampleWorlds :
              DoCreateConversation(form, world)
       \/ \E world \in Worlds :
              DoCreateConversation([api_key |-> <<"s","k">>, name |-> None,
                                    from_response_id |-> <<"r","1">>], world)

\* GET /api/conversations/<conv_id>/items (app.py)
GetConversationItems ==
    /\ op = "idle"
    /\ \E conv_id \in conv_ids, query \in Queries, listed \in ItemListings :
        LET run == get_conversation_items(conv_id, query, listed)
        IN  /\ op' = "get_conversation_items"
            /\ args' = [conv_id |-> conv_id, query |-> query, listed |-> listed]
            /\ result' = run.response
            /\ upstream' = run.upstream
            /\ UNCHANGED chat_vars

\* a request to api/index.py for an endpoint only app.py has
IndexNotFound ==
    /\ op = "idle"
    /\ \E path \in MissingIndexPaths, query \in Queries :
        /\ op' = "index_not_found"
        /\ args' = [path |-> path, query |-> query]
        /\ result' = index_not_found(path).response
        /\ upstream' = index_not_found(path).upstream
        /\ UNCHANGED chat_vars

\* POST /api/send (api/index.py)
DoIndexSendMessage(form, files, outcome) ==
    Handled("index_send_message", [form |-> form, files |-> files, outcome |-> outcome],
            index_send_message(form, files, outcome))

IndexSendMessage ==
    /\ op = "idle"
    /\ \/ \E form \in SendForms, files \in FileLists, outcome \in SampleOutcomes :
              DoIndexSendMessage(form, files, outcome)
       \/ \E outcome \in Outcomes :
              DoIndexSendMessage([PlainForm EXCEPT !.response_id = <<"r","1">>],
                                 <<>>, outcome)

\* the runs of continue_conversation.py: every option with some replies, and
\* a plain message with every reply
ContinueRuns ==
    [previous_response_id : cli_response_ids, user_message : Messages,
     options : cli_options,
     image_paths : {NoneList, <<a_png>>}, image_urls : {NoneList, <<http_url>>},
     fs : FileSystems(ChatPaths, ChatContents), outcome : SampleOutcomes]
    \cup
    [previous_response_id : {<<"r","1">>}, user_message : {<<"h","i">>},
     options : {[reasoning_effort |-> None, instructions |-> None]},
     image_paths : {NoneList}, image_urls : {NoneList},
     fs : {<<>>}, outcome : Outcomes]

\* what a run of continue_conversation leaves behind
DoContinueConversation(a, run) ==
    /\ op' = "continue_conversation"
    /\ args' = a
    /\ result' = run.result
    /\ upstream' = run.upstream
    /\ console' = run.console
    /\ UNCHANGED <<pc, user_input, current_response_id, pending_images,
                   pending_urls, disk, answers>>

\* python continue_conversation.py <response_id> <message> [options]
ContinueConversation ==
    /\ op = "idle"
    /\ \E a \in ContinueRuns :
        DoContinueConversation(a,
            continue_conversation(a.previous_response_id, a.user_message, gpt_4o,
                                  a.options.reasoning_effort, a.image_paths,
                                  a.image_urls, a.fs, a.outcome))

----------------------------------------------------------------------------
(* chat_loop of chat.py: one action per way an iteration of `while True` goes *)

\* input() raised EOFError or KeyboardInterrupt
EndOfInput == <<"EOF">>

slash_id    == <<"/","i","d">>
slash_clear == <<"/","c","l","e","a","r">>
slash_image == <<"/","i","m","a","g","e"," ">>
slash_url   == <<"/","u","r","l"," ">>
quit_words  == { <<"q","u","i","t">>, <<"e","x","i","t">>, <<"q">> }

\* the commands recognised only as they are spelt in the help
IsCommandAsTyped(line) ==
    \/ line = <<>>
    \/ line \in quit_words
    \/ line = slash_id
    \/ line = slash_clear
    \/ startswith(line, slash_image)
    \/ startswith(line, slash_url)

\* the lines that are not sent upstream: empty ones and the commands
IsCommand(line) ==
    \/ line = <<>>
    \/ lower(line) \in quit_words
    \/ lower(line) = slash_id
    \/ lower(line) = slash_clear
    \/ startswith(lower(line), slash_image)
    \/ startswith(lower(line), slash_url)

\* "Pending: n image(s), m URL(s)", printed before the prompt when something
\* is queued
pending_notice(images, urls) ==
    IF images # <<>> \/ urls # <<>>
    THEN <<[line |-> "Pending", images |-> Len(images), urls |-> Len(urls)]>>
    ELSE <<>>

\* python chat.py <response_id> [options]: chat_loop up to its first prompt
ChatLoop ==
    /\ op = "idle"
    /\ \E initial_response_id \in cli_response_ids, options \in cli_options,
          files \in FileSystems(ChatPaths, ChatContents) :
        /\ op' = "chat_loop"
        /\ args' = [initial_response_id |-> initial_response_id, model |-> gpt_4o,
                    reasoning_effort |-> options.reasoning_effort,
                    instructions |-> options.instructions]
        /\ result' = NoneObj
        /\ upstream' = <<>>
        /\ pc' = "prompt"
        /\ user_input' = <<>>
        /\ current_response_id' = initial_response_id
        /\ pending_images' = <<>>
        /\ pending_urls' = <<>>
        /\ disk' = files
        /\ answers' = <<>>
        /\ console' = <<console_line("Continuing conversation from", initial_response_id)>>

\* chat_loop is at its prompt
AtPrompt == op = "chat_loop" /\ pc = "prompt"

\* the loop reads the line typed, stripped
Reads(line) ==
    /\ user_input' = line
    /\ upstream' = <<>>
    /\ answers' = <<>>
    /\ UNCHANGED <<op, args, disk>>

\* the iteration ends in `continue`: back to the prompt
Continues(printed) ==
    /\ pc' = "prompt"
    /\ result' = NoneObj
    /\ console' = printed \o pending_notice(pending_images', pending_urls')

\* EOFError or KeyboardInterrupt at the prompt: "Goodbye!", break
ChatEndOfInput ==
    /\ AtPrompt
    /\ Reads(EndOfInput)
    /\ pc' = "done"
    /\ result' = NoneObj
    /\ console' = <<[line |-> "Goodbye!"]>>
    /\ UNCHANGED <<current_response_id, pending_images, pending_urls>>

\* `if not user_input: continue`
ChatEmptyLine ==
    /\ AtPrompt
    /\ \E raw \in ChatLines :
        /\ strip(raw) = <<>>
        /\ Reads(strip(raw))
        /\ UNCHANGED <<current_response_id, pending_images, pending_urls>>
        /\ Continues(<<>>)

\* quit, exit, q: "Final response ID", break
ChatQuit ==
    /\ AtPrompt
    /\ \E raw \in ChatLines :
        /\ lower(strip(raw)) \in quit_words
        /\ Reads(strip(raw))
        /\ pc' = "done"
        /\ result' = NoneObj
        /\ console' = <<console_line("Final response ID", current_response_id)>>
        /\ UNCHANGED <<current_response_id, pending_images, pending_urls>>

\* /id
ChatShowId ==
    /\ AtPrompt
    /\ \E raw \in ChatLines :
        /\ lower(strip(raw)) = slash_id
        /\ Reads(strip(raw))
        /\ UNCHANGED <<current_response_id, pending_images, pending_urls>>
        /\ Continues(<<console_line("Current response ID", current_response_id)>>)

\* /clear
ChatClear ==
    /\ AtPrompt
    /\ \E raw \in ChatLines :
        /\ lower(strip(raw)) = slash_clear
        /\ Reads(strip(raw))
        /\ pending_images' = <<>>
        /\ pending_urls' = <<>>
        /\ UNCHANGED current_response_id
        /\ Continues(<<[line |-> "Attachments cleared."]>>)

\* /image <path>: queued if something exists at the path
ChatImage ==
    /\ AtPrompt
    /\ \E raw \in ChatLines :
        LET img_path == strip(from(strip(raw), 7))
        IN  /\ startswith(lower(strip(raw)), slash_image)
            /\ Len(pending_images) < MaxImages
            /\ Reads(strip(raw))
            /\ pending_images' = IF path_exists(img_path, disk)
                                 THEN Append(pending_images, img_path)
                                 ELSE pending_images
            /\ UNCHANGED <<current_response_id, pending_urls>>
            /\ Continues(<<console_line(IF path_exists(img_path, disk)
                                        THEN "Queued" ELSE "File not found",
                                        img_path)>>)

\* /url <url>
ChatUrl ==
    /\ AtPrompt
    /\ \E raw \in ChatLines :
        LET url == strip(from(strip(raw), 5))
        IN  /\ startswith(lower(strip(raw)), slash_url)
            /\ Len(pending_urls) < MaxImages
            /\ Reads(strip(raw))
            /\ pending_urls' = Append(pending_urls, url)
            /\ UNCHANGED <<current_response_id, pending_images>>
            /\ Continues(<<console_line("Queued URL", url)>>)

\* the params of chat_loop: those of index_params and the instructions
chat_params(model, response_id, input, reasoning_effort, instructions) ==
    index_params(model, response_id, input,
                 IF reasoning_effort = <<>> THEN None ELSE reasoning_effort)
        @@ (IF instructions # None /\ instructions # <<>>
            THEN [instructions |-> instructions] ELSE <<>>)

\* "Sending with n attachment(s)...", printed when something was queued
sending_notice(images, urls) ==
    IF images # <<>> \/ urls # <<>>
    THEN <<[line |-> "Sending", attachments |-> Len(images) + Len(urls)]>>
    ELSE <<>>

\* the try block without `current_response_id = response.id`
chat_try_stale(response_id, outcome) ==
    [current_response_id |-> response_id, printed |-> <<>>]

\* the try block with an except clause that prints nothing
chat_try_silent(response_id, outcome) ==
    IF "raised" \in DOMAIN outcome \/ outcome.reply = NoneObj
    THEN [current_response_id |-> response_id, printed |-> <<>>]
    ELSE [current_response_id |-> outcome.reply.id,
          printed |-> print_output_loop(outcome.reply.output, <<>>).printed]

\* the try block of chat_loop, the service answering with outcome: the
\* response id after it and the lines printed
chat_try(response_id, outcome) ==
    IF "raised" \in DOMAIN outcome
    THEN [current_response_id |-> response_id,
          printed |-> <<error_line(outcome.raised), state_preserved_line>>]
    ELSE IF outcome.reply = NoneObj
    THEN [current_response_id |-> response_id,
          printed |-> <<error_line("AttributeError"), state_preserved_line>>]
    ELSE LET shown == print_output_loop(outcome.reply.output, <<>>)
         IN  [current_response_id |-> outcome.reply.id,
              printed |-> IF "raised" \in DOMAIN shown
                          THEN shown.printed
                                 \o <<error_line(shown.raised), state_preserved_line>>
                          ELSE shown.printed]

\* the iteration without `pending_images.clear()` and `pending_urls.clear()`
chat_request_keeps_queue(input_payload, response_id, images, urls, a, outcome) ==
    IF "raised" \in DOMAIN input_payload
    THEN [pc |-> "crashed", result |-> input_payload,
          current_response_id |-> response_id,
          pending_images |-> images, pending_urls |-> urls,
          upstream |-> <<>>, answers |-> <<>>, console |-> <<>>]
    ELSE [pc |-> "prompt", result |-> NoneObj,
          current_response_id |-> response_id,
          pending_images |-> images, pending_urls |-> urls,
          upstream |-> <<upstream_call("responses.create", env_api_key,
                                       chat_params(a.model, response_id, input_payload,
                                                   a.reasoning_effort, a.instructions))>>,
          answers |-> <<outcome>>, console |-> <<>>]

\* any other line is a message: build_input with what is queued, clear the
\* queues, one upstream call inside try/except. An exception of build_input
\* is raised outside the try block and ends chat_loop
chat_request(input_payload, response_id, images, urls, a, outcome) ==
    LET params == chat_params(a.model, response_id, input_payload,
                              a.reasoning_effort, a.instructions)
        call == upstream_call("responses.create", env_api_key, params)
        tried == chat_try(response_id, outcome)
    IN  IF "raised" \in DOMAIN input_payload
        THEN [pc |-> "crashed", result |-> input_payload,
              current_response_id |-> response_id,
              pending_images |-> images, pending_urls |-> urls,
              upstream |-> <<>>, answers |-> <<>>, console |-> <<>>]
        ELSE [pc |-> "prompt", result |-> NoneObj,
              current_response_id |-> tried.current_response_id,
              pending_images |-> <<>>, pending_urls |-> <<>>,
              upstream |-> <<call>>, answers |-> <<outcome>>,
              console |-> sending_notice(images, urls) \o tried.printed]

\* one iteration of chat_loop on a message, from `input_payload = build_input(`
\* on: given the locals and the arguments of chat_loop (a), what it leaves
chat_send(line, response_id, images, urls, files, a, outcome) ==
    chat_request(cli_build_input(line,
                                 IF images # <<>> THEN images ELSE NoneList,
                                 IF urls # <<>> THEN urls ELSE NoneList,
                                 files),
                 response_id, images, urls, a, outcome)

\* the locals of chat_loop after an iteration on the message line
DoChatSend(line, after) ==
    /\ user_input' = line
    /\ pc' = after.pc
    /\ result' = after.result
    /\ current_response_id' = after.current_response_id
    /\ pending_images' = after.pending_images
    /\ pending_urls' = after.pending_urls
    /\ upstream' = after.upstream
    /\ answers' = after.answers
    /\ console' = after.console
    /\ UNCHANGED <<op, args, disk>>

ChatSend ==
    /\ AtPrompt
    /\ \E raw \in ChatLines, outcome \in ChatOutcomes :
        /\ ~IsCommand(strip(raw))
        /\ DoChatSend(strip(raw),
                      chat_send(strip(raw), current_response_id, pending_images,
                                pending_urls, disk, args, outcome))

\* between two lines, the file at a path is removed, written or replaced by
\* a directory
DiskChanges ==
    /\ AtPrompt
    /\ \E files \in FileSystems(ChatPaths, ChatContents) :
        /\ files # disk
        /\ disk' = files
    /\ UNCHANGED <<op, args, result, upstream, pc, user_input, current_response_id,
                   pending_images, pending_urls, answers, console>>

\* the call is over: the next one starts from nothing
Return ==
    /\ op # "idle"
    /\ pc \in {"none", "done", "crashed"}
    /\ op' = "idle"
    /\ args' = <<>>
    /\ result' = NoneObj
    /\ upstream' = <<>>
    /\ pc' = NoChat.pc
    /\ user_input' = NoChat.user_input
    /\ current_response_id' = NoChat.current_response_id
    /\ pending_images' = NoChat.pending_images
    /\ pending_urls' = NoChat.pending_urls
    /\ disk' = NoChat.disk
    /\ answers' = NoChat.answers
    /\ console' = NoChat.console

Next ==
    \/ EncodeImageBytes
    \/ EncodeImage
    \/ BuildInput
    \/ CliBuildInput
    \/ SendMessage
    \/ ContinueConversationApi
    \/ IndexSendMessage
    \/ GetModels
    \/ IndexGetModels
    \/ GetResponseHistory
    \/ CreateConversation
    \/ GetConversationItems
    \/ IndexNotFound
    \/ ContinueConversation
    \/ ChatLoop
    \/ ChatEndOfInput
    \/ ChatEmptyLine
    \/ ChatQuit
    \/ ChatShowId
    \/ ChatClear
    \/ ChatImage
    \/ ChatUrl
    \/ ChatSend
    \/ DiskChanges
    \/ Return

Spec == Init /\ [][Next]_vars

----------------------------------------------------------------------------
(* Properties *)

IsAttachment(r) == DOMAIN r = {"data", "mime_type"}
Raised(r) == "raised" \in DOMAIN r
IsStr(r) == DOMAIN r = {"str"}
IsList(r) == DOMAIN r = {"list"}

\* the content list of a structured payload
ContentOf(r) == r.list[1].content

\* the attachments of a CLI call: none when the argument is None
ListOrEmpty(x) == IF x = NoneList THEN <<>> ELSE x

\* C1: build_input called with no attachments returns exactly the message as
\* a bare string, the empty message included; its result is a bare string if
\* and only if there are no attachments, and a one-element list otherwise.
C1_BareStringIffNoAttachments ==
    /\ op = "build_input" =>
        /\ args.images = <<>> => result = Str(args.message)
        /\ IsStr(result) <=> args.images = <<>>
        /\ ~IsStr(result) => IsList(result) /\ Len(result.list) = 1
    /\ op = "cli_build_input" /\ ~Raised(result) =>
        LET none == ListOrEmpty(args.image_paths) = <<>>
                    /\ ListOrEmpty(args.image_urls) = <<>>
        IN  /\ none => result = Str(args.message)
            /\ IsStr(result) <=> none
            /\ ~IsStr(result) => IsList(result) /\ Len(result.list) = 1

C1_Witness ==
    /\ op = "cli_build_input"
    /\ args.message = <<>>
    /\ args.image_paths = <<>>
    /\ args.image_urls = NoneList
    /\ result = Str(<<>>)

\* the URL field the spec gives a local image: data:<mimeType>;base64,<data>
ExpectedDataUrl(a) ==
    <<"d","a","t","a",":">> \o a.mime_type
        \o <<";","b","a","s","e","6","4",",">> \o a.data

\* C2: for a non-empty attachment sequence A, build_input(m, A) is a list of
\* exactly one message of role "user" whose content is one input_text entry
\* carrying m, first, if and only if m is non-empty, followed by exactly one
\* input_image entry per element of A in A's order: |A| + (1 if m else 0)
\* entries, none dropped, duplicated or reordered.
C2_TextThenImagesInOrder ==
    op = "build_input" /\ args.images # <<>> =>
        /\ IsList(result)
        /\ Len(result.list) = 1
        /\ DOMAIN result.list[1] = {"role", "content"}
        /\ result.list[1].role = "user"
        /\ LET content == ContentOf(result)
               k == IF args.message # <<>> THEN 1 ELSE 0
           IN  /\ Len(content) = Len(args.images) + k
               /\ k = 1 => content[1] = [type |-> "input_text", text |-> args.message]
               /\ \A i \in 1..Len(content) :
                      content[i].type = "input_text" <=> (k = 1 /\ i = 1)
               /\ \A i \in 1..Len(args.images) :
                      /\ content[i + k].type = "input_image"
                      /\ content[i + k].image_url = ExpectedDataUrl(args.images[i])

C2_Witness ==
    /\ op = "build_input"
    /\ args.message = <<>>
    /\ Len(args.images) = 2
    /\ args.images[1] # args.images[2]
    /\ Len(ContentOf(result)) = 2

\* C3: in every structured payload of build_input, the image_url of a local
\* or uploaded image entry is exactly "data:" + mimeType + ";base64," + data
\* for that attachment's own type and data, and the image_url of a remote
\* entry is exactly the URL the caller supplied.
C3_ImageUrlFields ==
    /\ op = "build_input" /\ IsList(result) =>
        LET content == ContentOf(result)
            k == Len(content) - Len(args.images)
        IN  \A i \in 1..Len(args.images) :
                content[i + k].image_url = ExpectedDataUrl(args.images[i])
    /\ op = "cli_build_input" /\ IsList(result) =>
        LET content == ContentOf(result)
            paths == ListOrEmpty(args.image_paths)
            urls  == ListOrEmpty(args.image_urls)
            k == Len(content) - Len(paths) - Len(urls)
        IN  /\ \A i \in 1..Len(paths) :
                  content[i + k].image_url
                      = ExpectedDataUrl(encode_image(paths[i], args.fs))
            /\ \A i \in 1..Len(urls) :
                  content[i + k + Len(paths)].image_url = urls[i]

C3_Witness ==
    /\ op = "cli_build_input"
    /\ IsList(result)
    /\ ListOrEmpty(args.image_paths) # <<>>
    /\ ListOrEmpty(args.image_urls) # <<>>
    /\ ContentOf(result)[Len(ContentOf(result))].image_url
           = <<"h","t","t","p",":","/","/","e","/","i",".","p","n","g">>

\* the extension of a file name, compared case-insensitively
Extension(f) == lower(path_suffix(f))

RecognizedExts == {dot_png, dot_jpg, dot_jpeg, dot_gif, dot_webp}

\* the table of the spec: png, jpg/jpeg, gif, webp
TableType(ext) ==
    CASE ext = dot_png  -> image_png
      [] ext = dot_jpg  -> image_jpeg
      [] ext = dot_jpeg -> image_jpeg
      [] ext = dot_gif  -> image_gif
      [] ext = dot_webp -> image_webp

\* the file name of an encoder call that returned an attachment
EncodedName ==
    IF op = "encode_image_bytes" THEN args.filename ELSE args.image_path

EncoderReturned == op \in {"encode_image_bytes", "encode_image"} /\ IsAttachment(result)

\* C4: for every byte buffer and every file name whose extension is png, jpg,
\* jpeg, gif or webp, the MIME type of encode_image_bytes (and of encode_image
\* for an existing file of that name) is the table-mapped type, whatever the
\* bytes are.
C4_RecognizedExtensionType ==
    EncoderReturned /\ Extension(EncodedName) \in RecognizedExts =>
        result.mime_type = TableType(Extension(EncodedName))

WellFormedType(t) ==
    /\ t # None
    /\ Cardinality({i \in 1..Len(t) : t[i] = "/"}) = 1
    /\ 0 < find(t, "/") /\ find(t, "/") < Len(t) - 1

\* a file name that reads as a data: URL, data:<type>,<rest>
DataUrlName(f) ==
    /\ Len(f) > 5
    /\ lower(SubSeq(f, 1, 5)) = <<"d","a","t","a",":">>
    /\ \E i \in 6..Len(f) : f[i] = ","

b64_index(c) == CHOOSE n \in 0..63 : b64_char(n) = c

RECURSIVE b64decode(_)
\* standard padded base64 decoding: four characters give three bytes, two
\* when the fourth is "=", one when the third is too
b64decode(s) ==
    IF Len(s) < 4 THEN <<>>
    ELSE LET i1 == b64_index(s[1])
             i2 == b64_index(s[2])
             rest == b64decode(SubSeq(s, 5, Len(s)))
         IN  IF s[3] = "="
             THEN <<i1 * 4 + i2 \div 16>> \o rest
             ELSE IF s[4] = "="
             THEN <<i1 * 4 + i2 \div 16,
                    (i2 % 16) * 16 + b64_index(s[3]) \div 4>> \o rest
             ELSE <<i1 * 4 + i2 \div 16,
                    (i2 % 16) * 16 + b64_index(s[3]) \div 4,
                    (b64_index(s[3]) % 4) * 64 + b64_index(s[4])>> \o rest

\* the bytes an encoder call was given: the buffer, or the file's bytes
EncodedBytes ==
    IF op = "encode_image_bytes" THEN args.data ELSE args.fs[args.image_path].data

\* C6: standard padded base64 decoding of the data returned by
\* encode_image_bytes(b, f) yields exactly b, the empty buffer included; the
\* same holds of encode_image(path) and the bytes of the file at path.
C6_Base64RoundTrip ==
    EncoderReturned =>
        /\ Len(result.data) % 4 = 0
        /\ b64decode(result.data) = EncodedBytes

C6_Witness ==
    /\ op = "encode_image"
    /\ IsAttachment(result)
    /\ EncodedBytes = <<255, 77>>
    /\ result.data = <<"/","0","0","=">>

\* C7 as stated: encode_image_bytes always returns an attachment, and
\* encode_image fails only for a missing source file: it signals
\* FileNotFoundError, and returns no attachment, exactly when nothing exists
\* at the path.
C7_Original ==
    /\ op = "encode_image_bytes" => IsAttachment(result)
    /\ op = "encode_image" =>
        /\ result = [raised |-> "FileNotFoundError"]
             <=> ~path_exists(args.image_path, args.fs)
        /\ ~IsAttachment(result) <=> ~path_exists(args.image_path, args.fs)

\* C7, amended: encode_image_bytes returns an attachment for every buffer and
\* every file name; encode_image signals FileNotFoundError exactly when
\* nothing exists at the path, returns an attachment exactly when a regular
\* file exists there, and fails with the error of open() (IsADirectoryError)
\* when the path is a directory.
C7_EncodingTotality ==
    /\ op = "encode_image_bytes" => IsAttachment(result)
    /\ op = "encode_image" =>
        LET there == path_exists(args.image_path, args.fs)
        IN  /\ result = [raised |-> "FileNotFoundError"] <=> ~there
            /\ IsAttachment(result)
                 <=> there /\ args.fs[args.image_path].kind = "file"
            /\ there /\ args.fs[args.image_path].kind = "dir"
                 => result = [raised |-> "IsADirectoryError"]

C7_Witness ==
    /\ op = "encode_image"
    /\ ~path_exists(args.image_path, args.fs)
    /\ path_suffix(args.image_path) = <<>>
    /\ result = [raised |-> "FileNotFoundError"]

\* the upstream call of the handler returned this reply (None included)
Replied == op \in {"send_message", "continue_conversation_api"}
           /\ upstream # <<>> /\ "reply" \in DOMAIN args.outcome

\* a reply with every attribute the extraction reads: each item has a kind,
\* each message a content list, each fragment a kind, each output_text
\* fragment a text
WellFormedReply(r) ==
    /\ r # NoneObj
    /\ \A i \in 1..Len(r.output) :
        LET item == r.output[i]
        IN  /\ "type" \in DOMAIN item
            /\ item.type = "message" =>
                /\ "content" \in DOMAIN item
                /\ item.content # NoneObjs
                /\ \A j \in 1..Len(item.content) :
                    LET c == item.content[j]
                    IN  /\ "type" \in DOMAIN c
                        /\ c.type = "output_text" =>
                               "text" \in DOMAIN c /\ c.text # None

RECURSIVE Concat(_)
\* the strings of a sequence, joined with no separator
Concat(strs) == IF strs = <<>> THEN <<>> ELSE Head(strs) \o Concat(Tail(strs))

\* the text of the output_text fragments of a content list, in order
ContentText(content) ==
    Concat([j \in 1..Len(content) |->
               IF content[j].type = "output_text" THEN content[j].text ELSE <<>>])

\* the text of a well-formed reply as the spec defines it: the output_text
\* fragments of the message items, in order, with no separator
ReplyText(r) ==
    Concat([i \in 1..Len(r.output) |->
               IF r.output[i].type = "message"
               THEN ContentText(r.output[i].content) ELSE <<>>])

\* C8: the text returned by /api/send is the concatenation, in order and with
\* no separator, of the text of every output_text fragment of every output
\* item of kind "message"; items of other kinds and messages with no text
\* fragment contribute nothing, and a reply with no output items yields "".
C8_SendConcatenatesOutputText ==
    op = "send_message" /\ Replied /\ WellFormedReply(args.outcome.reply) =>
        /\ result.status = 200
        /\ result.json.response = ReplyText(args.outcome.reply)

C8_Witness ==
    /\ op = "send_message"
    /\ Replied
    /\ args.outcome.reply # NoneObj
    /\ Len(args.outcome.reply.output) = 3
    /\ args.outcome.reply.output[1] = [type |-> "reasoning"]
    /\ args.outcome.reply.output[2] = [type |-> "message", content |-> <<text_A>>]
    /\ args.outcome.reply.output[3]
           = [type |-> "message",
              content |-> <<text_B, [type |-> "summary_text", text |-> <<"X">>]>>]
    /\ result.status = 200
    /\ result.json.response = <<"A","B">>

\* C9: every reply-extraction path appends a fragment's text only when the
\* fragment's kind is "output_text"; a fragment of another kind is never
\* appended, even if it has a text, so all paths return the same text for the
\* same reply.
C9_TypedExtractionEverywhere ==
    Replied /\ WellFormedReply(args.outcome.reply) =>
        /\ result.status = 200
        /\ result.json.response = ReplyText(args.outcome.reply)

\* C10: reply extraction never raises for missing optional fields: for every
\* reply that is present, a message with no content or a fragment with no
\* kind or no text included, it completes and returns a string; an error is
\* signalled only when the reply itself is absent.
C10_ExtractionNeverRaises ==
    op = "send_message" /\ Replied =>
        (result.status = 200 <=> args.outcome.reply # NoneObj)

\* the createResponse calls of the operation the state holds
CreateCalls == SelectSeq(upstream, LAMBDA c : c.api = "responses.create")

\* C11: no upstream createResponse call, of app.py send_message and
\* continue_conversation_api, api/index.py send_message, chat_loop or
\* continue_conversation, carries both a previous_response_id and a
\* conversation_id: each call carries at most one of the two links.
C11_AtMostOneLink ==
    \A i \in 1..Len(CreateCalls) :
        ~({"previous_response_id", "conversation_id"} \subseteq DOMAIN CreateCalls[i].params)

C11_Witness ==
    /\ op = "chat_loop"
    /\ Len(CreateCalls) = 1
    /\ CreateCalls[1].params.previous_response_id = new_id
    /\ "conversation_id" \notin DOMAIN CreateCalls[1].params

\* a form field that is present and not only whitespace
HasText(x) == x # None /\ \E i \in 1..Len(x) : x[i] \notin Whitespace

\* t is s without its leading and trailing whitespace
IsTrimOf(t, s) ==
    \E a \in 0..Len(s) :
        /\ a + Len(t) <= Len(s)
        /\ SubSeq(s, a + 1, a + Len(t)) = t
        /\ \A i \in 1..Len(s) : (i <= a \/ i > a + Len(t)) => s[i] \in Whitespace
        /\ t # <<>> => t[1] \notin Whitespace /\ t[Len(t)] \notin Whitespace

\* the ids the upstream service returns to chat_loop
ReturnedIds == {o.reply.id : o \in {x \in ChatOutcomes : "reply" \in DOMAIN x
                                                        /\ x.reply # NoneObj}}

\* the link of the CLIs and of the conversation endpoint is the value given
LinkOfCommandsUnaltered ==
    /\ op = "continue_conversation_api" /\ upstream # <<>> =>
           CreateCalls[1].params.conversation_id = args.conv_id
    /\ op = "continue_conversation" /\ upstream # <<>> =>
           CreateCalls[1].params.previous_response_id = args.previous_response_id
    /\ op = "chat_loop" /\ upstream # <<>> =>
           CreateCalls[1].params.previous_response_id
               \in {args.initial_response_id} \cup ReturnedIds

\* C12 as stated: whenever the caller supplies a prior link, the link value
\* in the upstream createResponse call is character for character the value
\* supplied; it is never altered or trimmed.
C12_Original ==
    /\ LinkOfCommandsUnaltered
    /\ op \in {"send_message", "index_send_message"} /\ upstream # <<>>
         /\ args.form.response_id # None =>
           /\ "previous_response_id" \in DOMAIN CreateCalls[1].params
           /\ CreateCalls[1].params.previous_response_id = args.form.response_id

\* C12, amended: the link value in the upstream call is character for
\* character the conv_id of the URL or the response id argument of the CLIs;
\* for /api/send it is the response_id supplied without its leading and
\* trailing whitespace, and a response_id that is only whitespace is no link.
C12_LinkPassedThrough ==
    /\ LinkOfCommandsUnaltered
    /\ op \in {"send_message", "index_send_message"} /\ upstream # <<>> =>
        IF HasText(args.form.response_id)
        THEN /\ "previous_response_id" \in DOMAIN CreateCalls[1].params
             /\ IsTrimOf(CreateCalls[1].params.previous_response_id,
                         args.form.response_id)
        ELSE "previous_response_id" \notin DOMAIN CreateCalls[1].params

C12_Witness ==
    /\ op = "send_message"
    /\ args.form.response_id = <<" ","r","1"," ">>
    /\ Len(CreateCalls) = 1
    /\ CreateCalls[1].params.previous_response_id = <<"r","1">>

\* C13: /api/send called with a non-empty message and no prior response id
\* is a fresh conversation start, in app.py and in api/index.py: exactly one
\* upstream createResponse call is issued and its parameters have no
\* previous_response_id; previous_response_id is in the upstream call if and
\* only if the caller supplied a response id.
C13_FreshStartWithoutResponseId ==
    op \in {"send_message", "index_send_message"} =>
        /\ (op = "send_message" => HasText(args.form.api_key))
             /\ HasText(args.form.message) /\ ~HasText(args.form.response_id)
           => /\ Len(CreateCalls) = 1
              /\ "previous_response_id" \notin DOMAIN CreateCalls[1].params
        /\ \A i \in 1..Len(CreateCalls) :
              "previous_response_id" \in DOMAIN CreateCalls[i].params
                  <=> HasText(args.form.response_id)

\* a /api/models request that was answered with a list
ModelsListed == op \in {"get_models", "index_get_models"} /\ result.status = 200

\* the ids the upstream service listed
ListedIds == [i \in 1..Len(args.listing.data) |-> args.listing.data[i].id]

\* how many times x is in the list l
Count(l, x) == Cardinality({i \in 1..Len(l) : l[i] = x})

\* id contains word, letters compared whatever their case
ContainsAnyCase(id, word) ==
    \E k \in 0..(Len(id) - Len(word)) :
        \A j \in 1..Len(word) : LowerChar(id[k + j]) = word[j]

\* id contains word as written
ContainsAsWritten(id, word) ==
    \E k \in 0..(Len(id) - Len(word)) : \A j \in 1..Len(word) : id[k + j] = word[j]

\* the ids the claim keeps
Qualifies(id) ==
    /\ \E w \in {<<"g","p","t","-","4">>, <<"g","p","t","-","5">>, <<"o","1">>, <<"o","3">>, <<"c","h","a","t","g","p","t">>} : ContainsAnyCase(id, w)
    /\ \A w \in {<<"r","e","a","l","t","i","m","e">>, <<"a","u","d","i","o">>, <<"t","r","a","n","s","c","r","i","b","e">>, <<"s","e","a","r","c","h">>} : ~ContainsAsWritten(id, w)

\* C14: for every list of model ids the upstream listModels returns,
\* /api/models returns exactly the ids that contain one of gpt-4, gpt-5, o1,
\* o3, chatgpt compared case-insensitively and none of realtime, audio,
\* transcribe, search: no other id is returned and no qualifying id is
\* omitted ([gpt-4o, gpt-4o-mini, text-embedding-ada-002, whisper-1] gives
\* exactly gpt-4o-mini and gpt-4o).
C14_ModelFilter ==
    /\ op \in {"get_models", "index_get_models"}
         /\ upstream # <<>> /\ "data" \in DOMAIN args.listing
       => result.status = 200
    /\ ModelsListed =>
        /\ \A i \in 1..Len(result.json.models) :
               \E j \in 1..Len(ListedIds) : ListedIds[j] = result.json.models[i]
        /\ \A j \in 1..Len(ListedIds) :
               Count(result.json.models, ListedIds[j])
                   = IF Qualifies(ListedIds[j]) THEN Count(ListedIds, ListedIds[j]) ELSE 0

C14_Witness ==
    /\ op = "get_models"
    /\ ListedIds = example_listing
    /\ result.json.models = <<gpt_4o_mini, gpt_4o>>

\* the rank the claim gives an id: that of the known prefix it matches, the
\* most specific one when it matches several (gpt-4.1-mini, not gpt-4.1), and
\* the last rank when it matches none
MatchingPrefixes(id) == {i \in 1..Len(priority_order) : startswith(id, priority_order[i])}

ClaimedRank(id) ==
    IF MatchingPrefixes(id) = {} THEN Len(priority_order) + 1
    ELSE CHOOSE i \in MatchingPrefixes(id) :
             \A j \in MatchingPrefixes(id) : Len(priority_order[j]) <= Len(priority_order[i])

\* C15: the list /api/models returns is sorted by the priority rank of each
\* id's known prefix, gpt-4o-mini < gpt-4o < gpt-4.1 < gpt-4.1-mini < o1-mini
\* < o1 < o3-mini < o3 < gpt-5 < chatgpt-4o: an id of lower rank precedes
\* every id of higher rank (every gpt-4.1-mini id follows every other gpt-4.1
\* id), ids of equal rank are in lexical order, and ids matching no known
\* prefix come last in lexical order.
C15_SortedByPriorityRank ==
    ModelsListed =>
        \A i, j \in 1..Len(result.json.models) :
            i < j =>
                LET a == result.json.models[i]
                    b == result.json.models[j]
                IN  \/ ClaimedRank(a) < ClaimedRank(b)
                    \/ ClaimedRank(a) = ClaimedRank(b) /\ ~str_less(b, a)

\* no uploaded part is an image: every part has an empty file name
NoImageAttached(files) == \A i \in 1..Len(files) : files[i].filename = <<>>

\* the request passes the checks made before the message is looked at
PassesEarlierChecks ==
    IF op = "send_message" THEN HasText(args.form.api_key)
    ELSE HasText(args.form.response_id)

\* C16: /api/send never issues an upstream createResponse call whose input
\* has empty text and no image: for every request, one whose message is only
\* whitespace and one whose uploaded parts all have an empty file name
\* included, if the stripped message is empty and no image is attached the
\* answer is HTTP 400 "Message or images required" and no upstream call is
\* made.
C16_NoEmptyRequest ==
    op \in {"send_message", "index_send_message"} =>
        /\ \A i \in 1..Len(CreateCalls) : CreateCalls[i].params.input # Str(<<>>)
        /\ PassesEarlierChecks /\ ~HasText(args.form.message)
             /\ NoImageAttached(args.files)
           => /\ result = http(400, [error |-> "Message or images required"])
              /\ upstream = <<>>

\* the operations that answer an API endpoint the claim names
ApiEndpoints ==
    {"get_models", "send_message", "get_response_history", "create_conversation",
     "get_conversation_items", "index_get_models", "index_send_message",
     "index_not_found"}

\* the API key the request carries, in its form or in its query string
KeyOfRequest == IF "form" \in DOMAIN args THEN args.form.api_key ELSE args.query.api_key

\* C17: every API endpoint of app.py and of api/index.py (/api/models,
\* /api/send, /api/history/<id>, /api/conversations,
\* /api/conversations/<id>/items) answers a request that carries no API key
\* (absent, empty or only whitespace) with HTTP 400, whatever its other
\* fields are, and makes no upstream call for it.
C17_ApiKeyRequired ==
    op \in ApiEndpoints /\ ~HasText(KeyOfRequest) =>
        /\ result.status = 400
        /\ upstream = <<>>

\* exactly one upstream call was made, a createResponse call
OneCreateCall == Len(upstream) = 1 /\ upstream[1].api = "responses.create"

\* the lines the console shows for a reply
ReplyLines == {"Assistant", "Response ID", "New response ID"}

\* no line printed presents a reply
NoReplyShown == \A i \in 1..Len(console) : console[i].line \notin ReplyLines

\* the console shows the line "Error: e"
ErrorShown(e) == \E i \in 1..Len(console) : console[i] = error_line(e)

\* every local image of a continue_conversation run is a file that exists
ImagesReadable ==
    \A i \in 1..Len(ListOrEmpty(args.image_paths)) :
        /\ args.image_paths[i] \in DOMAIN args.fs
        /\ args.fs[args.image_paths[i]].kind = "file"

\* chat_loop has just sent the line it read as a message
MessageSent == op = "chat_loop" /\ pc = "prompt" /\ ~IsCommand(user_input)

\* an accepted /api/send request makes one call; a failure of the call is
\* answered with 500 and its message
SendCallsOnce ==
    op \in {"send_message", "index_send_message"} /\ result.status # 400 =>
        /\ OneCreateCall
        /\ Raised(args.outcome) => result = http(500, [error |-> args.outcome.raised])

\* a message sent by chat_loop makes one call; a failure of the call is
\* printed as an "Error:" line and no reply is shown. A message that
\* build_input rejects makes no call
ChatCallsOnce ==
    /\ MessageSent =>
        /\ OneCreateCall
        /\ Len(answers) = 1
        /\ Raised(answers[1]) => ErrorShown(answers[1].raised) /\ NoReplyShown
    /\ op = "chat_loop" /\ pc = "crashed" => upstream = <<>>

\* continue_conversation makes one call when its images can be read, none
\* otherwise
CommandCallsOnce ==
    op = "continue_conversation" =>
        IF ImagesReadable THEN OneCreateCall ELSE upstream = <<>>

\* the command has ended with the exception of the failed call
CommandFailed ==
    op = "continue_conversation" /\ ImagesReadable /\ Raised(args.outcome)

\* C18 as stated: every failed call of the CLIs, that of continue_conversation
\* included, is shown as a console "Error:" line.
C18_Original ==
    /\ SendCallsOnce
    /\ ChatCallsOnce
    /\ CommandCallsOnce
    /\ CommandFailed => ErrorShown(args.outcome.raised) /\ NoReplyShown

\* C18: no retries and no suppression of upstream failures. Each accepted
\* /api/send request and each message sent by chat_loop or
\* continue_conversation issues exactly one createResponse call; if the call
\* fails no second call is made and the failure is surfaced, never reported
\* as success: HTTP 500 with the failure message for /api/send, a console
\* "Error:" line in chat_loop, and in continue_conversation the exception of
\* the call itself, which the command does not catch and which ends it.
C18_NoRetryNoSuppression ==
    /\ SendCallsOnce
    /\ ChatCallsOnce
    /\ CommandCallsOnce
    /\ CommandFailed => result = args.outcome /\ ~ErrorShown(args.outcome.raised)
                          /\ NoReplyShown

\* continue_conversation has made its one call, the call has failed and the
\* command has ended with that exception
C18_Witness ==
    /\ CommandFailed
    /\ OneCreateCall
    /\ result = [raised |-> "APIError"]
    /\ args.image_paths = <<a_png>>

\* C19: no error is fatal to chat_loop: whatever the lines typed and whatever
\* fails while one of them is handled (the upstream call, or a queued local
\* image that is no longer there when the message is sent), the loop does
\* not end with an exception, and it ends only on quit, exit, q or on end of
\* input.
C19_NoErrorIsFatal ==
    op = "chat_loop" =>
        /\ pc \in {"prompt", "done"}
        /\ pc = "done" => user_input = EndOfInput \/ lower(user_input) \in quit_words

\* the upstream call returned a response object, which carries an id
Succeeded(outcome) == "reply" \in DOMAIN outcome /\ outcome.reply # NoneObj

\* this step of chat_loop sends a message upstream
CallMade == op = "chat_loop" /\ op' = "chat_loop" /\ upstream' # <<>> /\ disk' = disk

\* chat_loop starts from the response id it is given
StartsFromInitialId ==
    op = "idle" /\ op' = "chat_loop" => current_response_id' = args'.initial_response_id

\* a request carries the current response id; a reply replaces it by its own
\* id, a failure leaves it as it is
CallFollowsId ==
    CallMade =>
        /\ upstream'[1].params.previous_response_id = current_response_id
        /\ current_response_id' = IF Succeeded(answers'[1]) THEN answers'[1].reply.id
                                  ELSE current_response_id

\* nothing but a reply changes the current response id
OnlyRepliesChangeId ==
    op = "chat_loop" /\ op' = "chat_loop" /\ ~CallMade =>
        current_response_id' = current_response_id

\* C20: in chat_loop the current response id is the id returned by the most
\* recent successful upstream call, or the initial response id if no call
\* has succeeded yet; every upstream request carries it as
\* previous_response_id, and a failed call leaves it unchanged, so that the
\* next message continues from the last successful response.
C20_CurrentIdIsLastReply ==
    [][StartsFromInitialId /\ CallFollowsId /\ OnlyRepliesChangeId]_vars

\* a call has failed after an earlier one had succeeded: the request carried
\* the id of the earlier reply, which is still the current one
C20_Witness ==
    /\ op = "chat_loop"
    /\ pc = "prompt"
    /\ answers = <<[raised |-> "APIError"]>>
    /\ upstream # <<>>
    /\ upstream[1].params.previous_response_id = new_id
    /\ current_response_id = new_id
    /\ new_id # args.initial_response_id

\* the image entries of an input payload, in its order
AttachmentsOf(input) ==
    IF IsStr(input) THEN <<>>
    ELSE SelectSeq(ContentOf(input), LAMBDA e : e.type = "input_image")

\* every queued path is a file that is on the disk
QueuedFilesExist ==
    \A i \in 1..Len(pending_images) :
        /\ pending_images[i] \in DOMAIN disk
        /\ disk[pending_images[i]].kind = "file"

\* the image entries that stand for what is queued: the files, then the URLs
QueuedAttachments ==
    [i \in 1..(Len(pending_images) + Len(pending_urls)) |->
        IF i <= Len(pending_images)
        THEN input_image(ExpectedDataUrl(encode_image(pending_images[i], disk)))
        ELSE input_image(pending_urls[i - Len(pending_images)])]

\* this step of chat_loop handles a line that is a message
SendStep ==
    /\ op = "chat_loop" /\ pc = "prompt" /\ op' = "chat_loop"
    /\ disk' = disk
    /\ ~IsCommand(user_input') /\ user_input' # EndOfInput

\* a message takes with it everything that is queued, and only that
SendTakesQueue ==
    SendStep /\ QueuedFilesExist =>
        /\ pc' = "prompt"
        /\ Len(upstream') = 1
        /\ AttachmentsOf(upstream'[1].params.input) = QueuedAttachments
        /\ pending_images' = <<>>
        /\ pending_urls' = <<>>

\* /clear empties both lists and sends nothing
ClearDropsQueue ==
    op = "chat_loop" /\ pc = "prompt" /\ op' = "chat_loop"
        /\ lower(user_input') = slash_clear /\ disk' = disk =>
            /\ pending_images' = <<>>
            /\ pending_urls' = <<>>
            /\ upstream' = <<>>

\* C21: in chat_loop, provided every queued file is still there when the
\* message is sent, each attachment queued with /image or /url goes into
\* exactly one upstream request, that of the first message sent after it was
\* queued, unless /clear comes first; both pending lists are empty after
\* every send attempt, successful or failed, and after every /clear, so that
\* no attachment is sent with a later message or twice.
C21_QueueSentOnce ==
    [][SendTakesQueue /\ ClearDropsQueue]_vars

\* a message has gone upstream with a queued file and a queued URL, the call
\* has failed, and nothing is queued any more
C21_Witness ==
    /\ op = "chat_loop"
    /\ pc = "prompt"
    /\ answers = <<[raised |-> "APIError"]>>
    /\ Len(upstream) = 1
    /\ Len(AttachmentsOf(upstream[1].params.input)) = 2
    /\ AttachmentsOf(upstream[1].params.input)[2] = input_image(http_url)
    /\ pending_images = <<>>
    /\ pending_urls = <<>>

\* the line is one of the given words, in any case
IsWord(line, words) == lower(line) \in words

\* the line is the given command followed by an argument, in any case
HasArgument(line, command) ==
    /\ Len(line) > Len(command)
    /\ lower(SubSeq(line, 1, Len(command))) = command

\* the argument of such a line: what follows the command, trimmed
ArgumentOf(line, command) == strip(SubSeq(line, Len(command) + 1, Len(line)))

\* this step of chat_loop handles the line it has read, user_input'
LineStep == op = "chat_loop" /\ pc = "prompt" /\ op' = "chat_loop" /\ disk' = disk

\* no call and the same response id
NothingSent == upstream' = <<>> /\ current_response_id' = current_response_id

\* both pending lists as they were
QueuesUnchanged == pending_images' = pending_images /\ pending_urls' = pending_urls

\* C22: in chat_loop a line that is empty or is a command (/id, /clear,
\* /image <path>, /url <url>, quit, exit, q, in any case) issues no upstream
\* call and leaves the current response id as it is; /id and an empty line
\* leave both pending lists unchanged, /image with a path that does not
\* exist leaves them unchanged, and /image or /url appends exactly one entry
\* to the end of its own list and leaves the other list unchanged.
C22_CommandsSendNothing ==
    [][LineStep =>
        LET line == user_input'
        IN  /\ line = <<>> \/ IsWord(line, {slash_id}) => NothingSent /\ QueuesUnchanged
            /\ IsWord(line, quit_words \cup {slash_clear}) => NothingSent
            /\ HasArgument(line, slash_image) =>
                /\ NothingSent
                /\ pending_urls' = pending_urls
                /\ pending_images' =
                       IF ArgumentOf(line, slash_image) \in DOMAIN disk
                       THEN Append(pending_images, ArgumentOf(line, slash_image))
                       ELSE pending_images
            /\ HasArgument(line, slash_url) =>
                /\ NothingSent
                /\ pending_images' = pending_images
                /\ pending_urls' = Append(pending_urls, ArgumentOf(line, slash_url))
    ]_vars

\* after a reply, a URL and then a file were queued, the file with /IMAGE in
\* capitals: one entry in each list, no call, the id of the reply kept
C22_Witness ==
    /\ op = "chat_loop"
    /\ pc = "prompt"
    /\ HasArgument(user_input, slash_image)
    /\ user_input # lower(user_input)
    /\ pending_images = <<a_png>>
    /\ pending_urls = <<http_url>>
    /\ upstream = <<>>
    /\ current_response_id = new_id

\* content is: the message if it is not empty, then one entry per path in
\* the order of paths, then one entry per URL in the order of urls
TextLocalsThenUrls(content, message, paths, urls, files) ==
    LET k == IF message # <<>> THEN 1 ELSE 0
    IN  /\ Len(content) = Len(paths) + Len(urls) + k
        /\ k = 1 => content[1] = [type |-> "input_text", text |-> message]
        /\ \A i \in 1..Len(paths) :
               content[k + i] = [type |-> "input_image",
                                 image_url |-> ExpectedDataUrl(encode_image(paths[i], files))]
        /\ \A i \in 1..Len(urls) :
               content[k + Len(paths) + i] = [type |-> "input_image", image_url |-> urls[i]]

\* C23: in the build_input of chat.py and continue_conversation.py, when
\* local image paths and image URLs are given, every local entry comes
\* before every URL entry in the content list, the local entries in the
\* order of image_paths and the URL entries in the order of image_urls;
\* the content has |image_paths| + |image_urls| entries, and one more if
\* the message is not empty.
C23_LocalsBeforeUrls ==
    /\ op = "cli_build_input" /\ IsList(result) =>
        TextLocalsThenUrls(ContentOf(result), args.message,
                           ListOrEmpty(args.image_paths), ListOrEmpty(args.image_urls),
                           args.fs)
    /\ op = "continue_conversation" /\ upstream # <<>>
           /\ IsList(upstream[1].params.input) =>
        TextLocalsThenUrls(ContentOf(upstream[1].params.input), args.user_message,
                           ListOrEmpty(args.image_paths), ListOrEmpty(args.image_urls),
                           args.fs)

\* build_input has returned a list for a message, two different files and
\* two different URLs
C23_Witness ==
    /\ op = "cli_build_input"
    /\ IsList(result)
    /\ args.message # <<>>
    /\ Len(ListOrEmpty(args.image_paths)) = 2
    /\ args.image_paths[1] # args.image_paths[2]
    /\ Len(ListOrEmpty(args.image_urls)) = 2
    /\ args.image_urls[1] # args.image_urls[2]
    /\ Len(ContentOf(result)) = 5

\* the text of the fragments of a content list that have one, joined
FragmentsText(content) ==
    Concat([j \in 1..Len(content) |->
               IF "text" \in DOMAIN content[j] THEN content[j].text ELSE <<>>])

\* the text of a listed item
MessageText(item) ==
    IF "content" \in DOMAIN item /\ item.content # NoneObjs
    THEN FragmentsText(item.content) ELSE <<>>

\* the text of the output of a retrieved response
OutputText(r) ==
    IF "output" \notin DOMAIN r THEN <<>>
    ELSE Concat([i \in 1..Len(r.output) |->
                    IF r.output[i].type = "message"
                    THEN FragmentsText(r.output[i].content) ELSE <<>>])

\* the messages of a listing that have a text, in the order of the listing
MessagesWithText(data) ==
    SelectSeq(data, LAMBDA item : item.type = "message" /\ MessageText(item) # <<>>)

\* the items.create calls of the request, in the order they were made
AppendsMade == SelectSeq(upstream, LAMBDA c : c.api = "conversations.items.create")

\* the message the i-th items.create call appends
Appended(i) == AppendsMade[i].params.items[1]

\* POST /api/conversations has migrated a response
Migrated ==
    /\ op = "create_conversation"
    /\ HasText(args.form.from_response_id)
    /\ result.status = 200

\* the calls append the messages of history, in its order, each with its text
\* and its role (assistant text as output_text, any other as input_text),
\* then the output of the response if it has a text
AppendsAre(history, output) ==
    /\ Len(AppendsMade) = Len(history) + (IF output # <<>> THEN 1 ELSE 0)
    /\ \A i \in 1..Len(history) :
        /\ Appended(i).content[1].text = MessageText(history[i])
        /\ "role" \in DOMAIN history[i] =>
            /\ Appended(i).role = history[i].role
            /\ Appended(i).content[1].type
                   = IF history[i].role = "assistant" THEN "output_text" ELSE "input_text"
    /\ output # <<>> =>
           Appended(Len(history) + 1)
               = [type |-> "message", role |-> "assistant",
                  content |-> <<[type |-> "output_text", text |-> output]>>]

\* C24: POST /api/conversations with from_response_id appends to the new
\* conversation the prior exchange oldest message first, the input items
\* being listed newest first, and last the assistant output of the response;
\* messages with an empty text are skipped, each item keeps its role
\* (assistant text as output_text, the others as input_text), and
\* items_added is the number of append calls made.
C24_MigratedOldestFirst ==
    Migrated =>
        /\ AppendsAre(reversed(MessagesWithText(args.world.listed.data)),
                      OutputText(args.world.retrieved.reply))
        /\ result.json.items_added = Len(AppendsMade)
====
